---- MODULE Spec2Model ----
(***************************************************************************)
(* A model of gridflow's CMIP6 download engine (gridflow/cmip6_downloader): *)
(* QueryHandler.fetch_datasets, Downloader.download_file, download_all,     *)
(* shutdown and the query part of run_download.                             *)
(*                                                                          *)
(* Python values are modelled as follows.  A dict is a record whose domain  *)
(* is the set of keys present (Get is dict.get).  A list is a sequence.     *)
(* A file's bytes are a sequence of chunk numbers.  A path is a sequence of *)
(* components, and appending a suffix appends a component.  A hex digest is *)
(* the pair of algorithm and data: digests are equal exactly when algorithm *)
(* and data are.                                                            *)
(***************************************************************************)
EXTENDS Integers, Sequences, FiniteSets, TLC

\* ------------------------------------------------------------------ bounds

\* The longest list handed to download_all.
MaxFiles == 2

\* The largest per-file retry budget (Downloader.retries) explored.
MaxRetries == 2

\* The largest worker-pool size (Downloader.max_workers) explored.
MaxWorkers == 2

\* How many top-level download_file calls on the one descriptor are explored.
MaxCalls == 2

\* Number of search endpoints in QueryHandler.nodes.
NumNodes == 2

\* Largest total-match count (numFound) an endpoint reports.
MaxFound == 2

\* ------------------------------------------------------------ Python helpers

\* dict.get(key, default); the empty dict is the record EmptyDict, whose one field
\* is no key of the model
Get(d, key, default) == IF key \in DOMAIN d THEN d[key] ELSE default

\* seq[:n] for n >= 0
Take(s, n) == SubSeq(s, 1, IF n < Len(s) THEN n ELSE Len(s))

\* seq[:n], with Python's meaning of a negative n (all but the last -n)
PySlice(s, n) == IF n >= 0 THEN Take(s, n) ELSE Take(s, IF Len(s) + n > 0 THEN Len(s) + n ELSE 0)

\* min(a, b)
Min(a, b) == IF a < b THEN a ELSE b

\* a ** b for b >= 0
RECURSIVE Pow(_, _)
Pow(a, b) == IF b = 0 THEN 1 ELSE a * Pow(a, b - 1)

\* the elements of a sequence
Range(s) == {s[i] : i \in 1..Len(s)}

\* ------------------------------------------------------------- file contents

\* A path where nothing exists.
Absent == [exists |-> FALSE, data |-> <<>>]

\* A regular file holding `d`.
File(d) == [exists |-> TRUE, data |-> d]

\* The body the server holds for the file the descriptors' checksum describes.
GoodBody == <<1, 2>>

\* A body corrupted in transit: its digest differs from the descriptor's.
BadBody == <<1, 3>>

\* A file left by an earlier run whose bytes do not match the checksum.
StaleData == <<9>>

\* hashlib.md5(data).hexdigest() / hashlib.sha256(data).hexdigest()
HexDigest(algorithm, data) == [algorithm |-> algorithm, data |-> data]

\* The empty string where a hex digest is expected.
EmptyHex == [algorithm |-> "", data |-> <<>>]

\* ------------------------------------------------------------- descriptors

\* str.replace('/', '_') on the facet values of the model
SlashToUnderscore(s) == IF s = "Scenario/MIP" THEN "Scenario_MIP" ELSE s

\* str.replace(' ', '') on the facet values of the model
RemoveSpaces(s) == IF s = "100 km" THEN "100km" ELSE s

\* FileManager.RESOLUTION_MAPPING.get(model, 'unknown')
RESOLUTION_MAPPING(model) == CASE model = "HiRAM-SIT-HR" -> "25km" [] model = "CanESM5" -> "250km" [] model = "CESM2" -> "100km" [] OTHER -> "unknown"

\* A url entry "addr|...|service" of a descriptor, split at '|'.
Url(addr, service) == [addr |-> addr, service |-> service]

\* `"HTTPServer" in url` for a url entry
UrlHasHTTPServer(u) == u.service = "HTTPServer"

\* url.split('|')[0]
UrlAddress(u) == u.addr

\* A search record with the facets the downloader reads.
Desc(title, url, checksum) == [title |-> title, url |-> url, checksum |-> checksum, checksum_type |-> <<"sha256">>, activity_id |-> <<"Scenario/MIP">>, variable_id |-> <<"tas">>, source_id |-> <<"CESM2">>, nominal_resolution |-> <<"100 km">>]

\* The checksum list of a record whose checksum is that of GoodBody.
GoodChecksum == <<HexDigest("sha256", GoodBody)>>

\* The url lists explored: none, one HTTP url, one GridFTP url, GridFTP before
\* HTTP, GridFTP before two HTTP urls.
UrlLists == {<<>>, <<Url("u1", "HTTPServer")>>, <<Url("g1", "GridFTP")>>, <<Url("g1", "GridFTP"), Url("u1", "HTTPServer")>>,
             <<Url("g1", "GridFTP"), Url("u1", "HTTPServer"), Url("u2", "HTTPServer")>>}

\* The dict with no key at all, {}.
EmptyDict == [empty |-> TRUE]

\* The descriptors a single download_file call is explored on.
FileDescriptors == {Desc(t, u, c) : t \in {"", "t1"}, u \in UrlLists, c \in {GoodChecksum, <<EmptyHex>>}} \cup {EmptyDict}

\* The descriptors lists handed to download_all are drawn from.
BatchDescriptors == {Desc("t1", <<Url("u1", "HTTPServer")>>, GoodChecksum), Desc("t2", <<Url("u2", "HTTPServer")>>, GoodChecksum), Desc("t1", <<>>, GoodChecksum), EmptyDict}

\* All sequences over S of length at most n.
SeqsUpTo(S, n) == UNION {[1..k -> S] : k \in 0..n}

\* ------------------------------------------------------------------- state

VARIABLES
    stop_event,            \* Downloader.stop_event (threading.Event): TRUE once set
    retries,               \* Downloader.retries
    max_downloads,         \* Downloader.max_downloads; 0 stands for None
    max_workers,           \* Downloader.max_workers
    save_mode,             \* FileManager.save_mode
    files,                 \* the list handed to download_all, or the one descriptor of a direct call
    task,                  \* the download_file invocations: position, attempt, result
    fs,                    \* the file system: path -> Absent or File(data)
    calls,                 \* how many top-level download_file calls were made directly
    pcAll,                 \* position of download_all
    executor,              \* Downloader.executor is not None
    pending_futures,       \* Downloader.pending_futures: the submitted tasks, in order
    yielded,               \* the futures as_completed has handed out
    downloaded_files,      \* download_all's local list
    failed_files,          \* download_all's local list
    successful_downloads   \* Downloader.successful_downloads

\* The state of the query: QueryHandler.fetch_datasets and what run_download does
\* with its result.
VARIABLES
    args_stop_event,       \* args.stop_event, the QueryHandler's stop event: TRUE once set
    qpc,                   \* position of fetch_datasets / _fetch_from_node
    node,                  \* index of the endpoint the loop of fetch_datasets is at
    offset,                \* _fetch_from_node's offset
    num_found,             \* _fetch_from_node's num_found
    node_files,            \* _fetch_from_node's files, then fetch_datasets' node_files
    seen_ids,              \* fetch_datasets' seen_ids
    q_files,               \* fetch_datasets' files
    reqs,                  \* endpoint -> requests sent to it in this call
    outcome,               \* endpoint -> how its attempt ended
    rpc,                   \* position of run_download
    working                \* run_download's files after the deduplication by title

\* The state of Downloader.retry_failed and of the rest of run_download.
VARIABLES
    session_closed,        \* Downloader.session.close() was called
    pcRetry,               \* position of retry_failed
    retry_round,           \* retry_failed's retry_round
    remaining_failed,      \* retry_failed's remaining_failed
    current_failed,        \* retry_failed's current_failed
    rpos,                  \* how many descriptors of remaining_failed the submit loop has passed
    retry_downloaded,      \* retry_failed's downloaded_files
    round_queries,         \* the calls of fetch_specific_file of this round: descriptor and result
    unfound,               \* the descriptors a re-query of an earlier round found no record for
    metadata,              \* the files save_metadata has written: name -> content
    downloader             \* run_download has constructed its Downloader

\* A call of a function that works on its arguments alone.
VARIABLES
    call,                  \* the function called and its arguments
    result                 \* what the call returned, once it has

pvars == <<call, result>>

rvars == <<session_closed, pcRetry, retry_round, remaining_failed, current_failed, rpos, retry_downloaded, round_queries, unfound, metadata, downloader>>

qvars == <<args_stop_event, qpc, node, offset, num_found, node_files, seen_ids, q_files, reqs, outcome, rpc, working>>

dvars == <<stop_event, retries, max_downloads, max_workers, save_mode, files, task, fs, calls, pcAll, executor, pending_futures, yielded, downloaded_files, failed_files, successful_downloads>>

vars == <<dvars, qvars, rvars, pvars>>

\* Python's None where a descriptor is expected.
NoInfo == [none |-> TRUE]

\* Python's None where a path is expected.
NoPath == <<>>

\* bool(x) for x a descriptor or None: None and the empty dict are false
Truthy(info) == info # NoInfo /\ info # EmptyDict

\* ------------------------------------------------------------- FileManager

\* FileManager.get_output_path, relative to download_dir, with an empty prefix.
GetOutputPath(fi, mode) == LET filename == Get(fi, "title", "")
       activity == SlashToUnderscore(Get(fi, "activity_id", <<"unknown">>)[1])
       variable == SlashToUnderscore(Get(fi, "variable_id", <<"unknown">>)[1])
       model == Get(fi, "source_id", <<"unknown">>)[1]
       nominal_resolution == Get(fi, "nominal_resolution", <<"">>)[1]
       resolution == IF nominal_resolution # "" THEN RemoveSpaces(nominal_resolution) ELSE RemoveSpaces(RESOLUTION_MAPPING(model))
   IN  IF mode = "flat" THEN <<activity, "_", resolution, "_", filename>> ELSE <<variable, "/", resolution, "/", activity, "/", filename>>

\* output_path.with_suffix(output_path.suffix + '.tmp')
TempPath(out) == Append(out, ".tmp")

\* Every path the model's descriptors map to, and their temp paths.
AllPaths == LET outs == {GetOutputPath(d, m) : d \in FileDescriptors \cup BatchDescriptors, m \in {"flat", "structured"}} IN outs \cup {TempPath(p) : p \in outs}

\* -------------------------------------------------------------- Downloader

\* A slip in verify_checksum: every file passes.
VerifyNothing(file, fi) == TRUE

\* str.lower, on the algorithm tags looked at
Lower(s) == IF s = "SHA256" THEN "sha256" ELSE IF s = "MD5" THEN "md5" ELSE s

\* Downloader.verify_checksum on the file at a path (`file` is fs[path])
VerifyChecksum(file, fi) == LET checksum == Get(fi, "checksum", <<EmptyHex>>)[1]
       checksum_type == Lower(Get(fi, "checksum_type", <<"sha256">>)[1])
   IN  IF checksum = EmptyHex THEN TRUE
       ELSE IF ~file.exists THEN FALSE
       ELSE IF checksum_type \notin {"md5", "sha256"} THEN TRUE
       ELSE HexDigest(checksum_type, file.data) = checksum

\* A slip in lines 307-313: the first url is taken whatever its tag.
FirstUrl(urls) == IF urls = <<>> THEN 0 ELSE 1

\* The index of the first url the loop of download_file does not skip, or 0.
FirstHttpUrl(urls) == IF \E i \in 1..Len(urls) : UrlHasHTTPServer(urls[i]) THEN CHOOSE i \in 1..Len(urls) : UrlHasHTTPServer(urls[i]) /\ \A j \in 1..(i - 1) : ~UrlHasHTTPServer(urls[j]) ELSE 0

\* time.sleep's argument after failed attempt number `attempt`
BackoffSeconds(attempt) == Pow(2, attempt) + 5

\* A different reading of the budget: retry while fewer than `budget` attempts were made.
MayRetryStrict(attempt, budget) == attempt < budget

\* `if attempt <= self.retries`
MayRetry(attempt, budget) == attempt <= budget

\* A slip in line 297: the verification result is read the wrong way round.
KeepExistingInverted(file, fi) == file.exists /\ ~VerifyChecksum(file, fi)

\* A slip in lines 296-297: an existing file is accepted without verification.
KeepExistingUnverified(file, fi) == file.exists

\* download_file, lines 296-300: the file at the final path is kept and reported
KeepExisting(file, fi) == file.exists /\ VerifyChecksum(file, fi)

\* A download_file invocation about to start on descriptor fi.
NewTask(fi, pc, file_at_call) == [pc |-> pc, fi |-> fi, attempt |-> 1, body |-> <<>>, ret |-> "", path |-> NoPath, info |-> NoInfo, requested |-> <<>>, sleeps |-> <<>>, at_call |-> file_at_call, streamed |-> FALSE, removed |-> "none"]

\* The task after `return path, info` at the named return statement.
Returned(t, site, path, info) == [task[t] EXCEPT !.pc = "done", !.ret = site, !.path = path, !.info = info]

\* The task after an exception left download_file uncaught.
Raised(t) == [task[t] EXCEPT !.pc = "done", !.ret = "raised"]

\* A slip in line 320: the stream is opened at the final path.
WriteTargetFinal(out) == out

\* The path the stream of a task is written to.
WriteTarget(out) == TempPath(out)

\* A slip in line 281: download_file does not look at the stop event.
SkipNothing(stop) == FALSE

\* download_file, line 281: `if self.stop_event.is_set()`.
SkipDownload(stop) == stop

\* A slip in line 288: only the title is looked at.
InvalidWithoutTitle(urls, filename) == filename = ""

\* download_file, line 288: `if not urls or not filename`.
InvalidDescriptor(urls, filename) == urls = <<>> \/ filename = ""

\* download_file, lines 281-291: the stop check and the validation.
Enter(t) ==
    /\ task[t].pc = "entry"
    /\ LET fi == task[t].fi
           urls == Get(fi, "url", <<>>)
           filename == Get(fi, "title", "")
       IN  task' = [task EXCEPT ![t] =
                      IF SkipDownload(stop_event) THEN Returned(t, "stop_entry", NoPath, fi)
                      ELSE IF InvalidDescriptor(urls, filename) THEN Returned(t, "invalid", NoPath, fi)
                      ELSE [task[t] EXCEPT !.pc = "exists"]]
    /\ UNCHANGED <<stop_event, retries, max_downloads, max_workers, save_mode, files, fs, calls, pcAll, executor, pending_futures, yielded, downloaded_files, failed_files, successful_downloads, qvars, rvars, pvars>>

\* download_file, lines 293-305: an existing file is verified and kept, or removed.
CheckExisting(t) ==
    /\ task[t].pc = "exists"
    /\ LET fi == task[t].fi
           out == GetOutputPath(fi, save_mode)
       IN  IF ~fs[out].exists
           THEN /\ task' = [task EXCEPT ![t].pc = "fetch"]
                /\ fs' = fs
           ELSE IF KeepExisting(fs[out], fi)
           THEN /\ task' = [task EXCEPT ![t] = Returned(t, "exists_ok", out, NoInfo)]
                /\ fs' = fs
           ELSE \/ /\ fs' = [fs EXCEPT ![out] = Absent]
                   /\ task' = [task EXCEPT ![t].pc = "fetch", ![t].removed = "deleted"]
                \/ /\ fs' = fs
                   /\ task' = [task EXCEPT ![t].pc = "fetch", ![t].removed = "unlink_failed"]
    /\ UNCHANGED <<stop_event, retries, max_downloads, max_workers, save_mode, files, calls, pcAll, executor, pending_futures, yielded, downloaded_files, failed_files, successful_downloads, qvars, rvars, pvars>>

\* download_file, lines 307-320 and 355-357: the url is chosen, the request made and
\* the temp file opened.  The request fails, or answers with some body; the session
\* (InterruptibleSession.get) raises when the stop event is set by then.
Fetch(t) ==
    /\ task[t].pc = "fetch"
    /\ LET fi == task[t].fi
           urls == Get(fi, "url", <<>>)
           i == FirstHttpUrl(urls)
           out == GetOutputPath(fi, save_mode)
           asked == [task[t] EXCEPT !.requested = Append(@, UrlAddress(urls[i]))]
       IN  IF i = 0
           THEN /\ task' = [task EXCEPT ![t] = Returned(t, "no_http", NoPath, fi)]
                /\ fs' = fs
           ELSE \/ /\ task' = [task EXCEPT ![t] = [asked EXCEPT !.pc = "except"]]
                   /\ fs' = fs
                \/ /\ stop_event
                   /\ task' = [task EXCEPT ![t] = [asked EXCEPT !.pc = "except"]]
                   /\ fs' = fs
                \/ /\ ~stop_event
                   /\ \E b \in {GoodBody, BadBody} :
                        /\ task' = [task EXCEPT ![t] = [asked EXCEPT !.pc = "stream", !.body = b]]
                        /\ fs' = [fs EXCEPT ![WriteTarget(out)] = File(<<>>)]
                \/ /\ ~stop_event
                   /\ task' = [task EXCEPT ![t] = [Raised(t) EXCEPT !.requested = asked.requested]]
                   /\ fs' = fs
    /\ UNCHANGED <<stop_event, retries, max_downloads, max_workers, save_mode, files, calls, pcAll, executor, pending_futures, yielded, downloaded_files, failed_files, successful_downloads, qvars, rvars, pvars>>

\* download_file, lines 321-328: one chunk arrives; the stop event is checked, then
\* the chunk is written (or the write fails with an OSError).
StreamChunk(t) ==
    /\ task[t].pc = "stream"
    /\ task[t].body # <<>>
    /\ LET fi == task[t].fi
           out == GetOutputPath(fi, save_mode)
           target == WriteTarget(out)
       IN  IF stop_event
           THEN /\ task' = [task EXCEPT ![t] = Returned(t, "stop_stream", NoPath, fi)]
                /\ fs' = fs
           ELSE \/ /\ fs' = [fs EXCEPT ![target] = File(Append(fs[target].data, Head(task[t].body)))]
                   /\ task' = [task EXCEPT ![t].body = Tail(@), ![t].streamed = TRUE]
                \/ /\ fs' = fs
                   /\ task' = [task EXCEPT ![t] = Raised(t)]
    /\ UNCHANGED <<stop_event, retries, max_downloads, max_workers, save_mode, files, calls, pcAll, executor, pending_futures, yielded, downloaded_files, failed_files, successful_downloads, qvars, rvars, pvars>>

\* download_file, line 321: iter_content raises a RequestException (the connection
\* dropped, a read timed out) before the next chunk.
StreamFail(t) ==
    /\ task[t].pc = "stream"
    /\ task[t].body # <<>>
    /\ task' = [task EXCEPT ![t].pc = "except"]
    /\ UNCHANGED <<stop_event, retries, max_downloads, max_workers, save_mode, files, fs, calls, pcAll, executor, pending_futures, yielded, downloaded_files, failed_files, successful_downloads, qvars, rvars, pvars>>

\* download_file, lines 329-339: the complete temp file is verified, then renamed
\* to the final path (over an existing file, or failing where the platform refuses
\* that), or removed before the ValueError is raised.
VerifyAndRename(t) ==
    /\ task[t].pc = "stream"
    /\ task[t].body = <<>>
    /\ LET fi == task[t].fi
           out == GetOutputPath(fi, save_mode)
           tmp == TempPath(out)
       IN  IF VerifyChecksum(fs[tmp], fi)
           THEN \/ /\ fs[tmp].exists
                   /\ fs' = [fs EXCEPT ![out] = fs[tmp], ![tmp] = Absent]
                   /\ task' = [task EXCEPT ![t] = Returned(t, "renamed", out, NoInfo)]
                \/ /\ fs[out].exists \/ ~fs[tmp].exists
                   /\ fs' = fs
                   /\ task' = [task EXCEPT ![t] = Raised(t)]
           ELSE \/ /\ fs' = [fs EXCEPT ![tmp] = Absent]
                   /\ task' = [task EXCEPT ![t].pc = "except"]
                \/ /\ fs' = fs
                   /\ task' = [task EXCEPT ![t].pc = "except"]
    /\ UNCHANGED <<stop_event, retries, max_downloads, max_workers, save_mode, files, calls, pcAll, executor, pending_futures, yielded, downloaded_files, failed_files, successful_downloads, qvars, rvars, pvars>>

\* download_file, lines 341-353: the handler of RequestException and ValueError.
Except(t) ==
    /\ task[t].pc = "except"
    /\ LET fi == task[t].fi
       IN  task' = [task EXCEPT ![t] =
                      IF stop_event THEN Returned(t, "stop_except", NoPath, fi)
                      ELSE IF MayRetry(task[t].attempt, retries) THEN [task[t] EXCEPT !.pc = "sleep", !.sleeps = Append(@, BackoffSeconds(task[t].attempt))]
                      ELSE Returned(t, "exhausted", NoPath, fi)]
    /\ UNCHANGED <<stop_event, retries, max_downloads, max_workers, save_mode, files, fs, calls, pcAll, executor, pending_futures, yielded, downloaded_files, failed_files, successful_downloads, qvars, rvars, pvars>>

\* download_file, line 350: after the sleep the function calls itself with attempt + 1
\* and returns what that call returns.
Reinvoke(t) ==
    /\ task[t].pc = "sleep"
    /\ task' = [task EXCEPT ![t].pc = "entry", ![t].attempt = @ + 1]
    /\ UNCHANGED <<stop_event, retries, max_downloads, max_workers, save_mode, files, fs, calls, pcAll, executor, pending_futures, yielded, downloaded_files, failed_files, successful_downloads, qvars, rvars, pvars>>

\* A further top-level call of download_file on the same descriptor.
CallAgain(t) ==
    /\ task[t].pc = "done"
    /\ pcAll = "none"
    /\ calls < MaxCalls
    /\ calls' = calls + 1
    /\ task' = [task EXCEPT ![t] = NewTask(task[t].fi, "entry", fs[GetOutputPath(task[t].fi, save_mode)])]
    /\ UNCHANGED <<stop_event, retries, max_downloads, max_workers, save_mode, files, fs, pcAll, executor, pending_futures, yielded, downloaded_files, failed_files, successful_downloads, qvars, rvars, pvars>>

\* A slip in lines 252-253: the stop event is set and the futures are cancelled,
\* but the pool and the list of futures are kept.
ShutdownKeepsPool ==
    /\ stop_event' = TRUE
    /\ task' = [t \in DOMAIN task |-> IF executor /\ t \in Range(pending_futures) /\ task[t].pc = "queued" THEN [task[t] EXCEPT !.pc = "cancelled"] ELSE task[t]]
    /\ UNCHANGED <<executor, pending_futures>>
    /\ session_closed' = TRUE

\* The body of Downloader.shutdown, lines 246-254: set the stop event; if there is
\* an executor, cancel the futures not yet started, shut the pool down without
\* waiting and drop it and the list of futures; close the session.
ShutdownBody ==
    /\ stop_event' = TRUE
    /\ IF executor
       THEN /\ task' = [t \in DOMAIN task |-> IF t \in Range(pending_futures) /\ task[t].pc = "queued" THEN [task[t] EXCEPT !.pc = "cancelled"] ELSE task[t]]
            /\ executor' = FALSE
            /\ pending_futures' = <<>>
       ELSE UNCHANGED <<task, executor, pending_futures>>
    /\ session_closed' = TRUE

\* Downloader.shutdown, lines 246-254, called from another thread (a signal handler,
\* the GUI): sets the stop event, cancels the futures not yet started, drops the pool.
Shutdown ==
    /\ ShutdownBody
    /\ UNCHANGED <<retries, max_downloads, max_workers, save_mode, files, fs, calls, pcAll, yielded, downloaded_files, failed_files, successful_downloads, qvars>>
    /\ UNCHANGED <<pcRetry, retry_round, remaining_failed, current_failed, rpos, retry_downloaded, round_queries, unfound, metadata, downloader, pvars>>

\* Where call and result stand while no such call is looked at.
NoCall == [fn |-> "none"]

\* No call of a function on its arguments alone is under way.
PureIdle == call = NoCall /\ result = NoCall

\* retry_failed is not running and run_download has written nothing.
RetryIdle ==
    /\ session_closed = FALSE
    /\ pcRetry = "none"
    /\ retry_round = 0
    /\ remaining_failed = <<>>
    /\ current_failed = <<>>
    /\ rpos = 0
    /\ retry_downloaded = <<>>
    /\ round_queries = <<>>
    /\ unfound = {}
    /\ metadata = {}
    /\ downloader = FALSE

\* The value of the locals of _fetch_from_node outside the call.
NoCount == -1

\* No query is in progress (the state the query variables keep in the
\* specifications of the Downloader alone).
QueryIdle ==
    /\ args_stop_event = FALSE
    /\ qpc = "none"
    /\ node = 1
    /\ offset = 0
    /\ num_found = NoCount
    /\ node_files = <<>>
    /\ seen_ids = {}
    /\ q_files = <<>>
    /\ reqs = <<>>
    /\ outcome = <<>>
    /\ rpc = "none"
    /\ working = <<>>

\* ------------------------------------------- one descriptor, called directly

\* A Downloader was constructed and download_file is called on one descriptor; the
\* final path is empty, holds the right bytes, or holds stale bytes.
InitFile ==
    /\ stop_event \in BOOLEAN
    /\ retries \in 0..MaxRetries
    /\ max_downloads = 0
    /\ max_workers = 1
    /\ save_mode \in {"flat", "structured"}
    /\ \E d \in FileDescriptors, f \in {Absent, File(GoodBody), File(StaleData)} :
         /\ files = <<d>>
         /\ fs = [p \in AllPaths |-> IF p = GetOutputPath(d, save_mode) THEN f ELSE Absent]
         /\ task = <<NewTask(d, "entry", f)>>
    /\ calls = 1
    /\ pcAll = "none"
    /\ executor = FALSE
    /\ pending_futures = <<>>
    /\ yielded = {}
    /\ downloaded_files = <<>>
    /\ failed_files = <<>>
    /\ successful_downloads = 0
    /\ QueryIdle
    /\ RetryIdle
    /\ PureIdle

NextFile ==
    \/ \E t \in DOMAIN task : Enter(t)
    \/ \E t \in DOMAIN task : CheckExisting(t)
    \/ \E t \in DOMAIN task : Fetch(t)
    \/ \E t \in DOMAIN task : StreamChunk(t)
    \/ \E t \in DOMAIN task : StreamFail(t)
    \/ \E t \in DOMAIN task : VerifyAndRename(t)
    \/ \E t \in DOMAIN task : Except(t)
    \/ \E t \in DOMAIN task : Reinvoke(t)
    \/ \E t \in DOMAIN task : CallAgain(t)
    \/ Shutdown

SpecFile == InitFile /\ [][NextFile]_vars

\* ------------------------------------------------------------ download_all

\* How many times x occurs in the sequence s.
Count(s, x) == Cardinality({i \in 1..Len(s) : s[i] = x})

\* list.index(x): the first position of x in s
Index(s, x) == CHOOSE i \in 1..Len(s) : s[i] = x /\ \A j \in 1..(i - 1) : s[j] # x

\* A slip in line 362: the cap on the number of files is not applied.
TotalFilesUncapped(fs_list, cap) == Len(fs_list)

\* download_all, line 362: how many of the files are submitted
TotalFiles(fs_list, cap) == IF cap # 0 THEN Min(Len(fs_list), cap) ELSE Len(fs_list)

\* download_all, line 391: the descriptor recorded as failed for a future whose
\* result() raised
RaisedDescriptor(t) == files[Index(pending_futures, t)]

\* The tasks the pool is running.
Running == {t \in DOMAIN task : task[t].pc \notin {"queued", "cancelled", "done"}}

\* download_all, lines 360-374: nothing to do, or the pool is created and one task
\* per descriptor of files[:total_files] is submitted.
DownloadAllBegin ==
    /\ pcAll = "start"
    /\ downloaded_files' = <<>>
    /\ failed_files' = <<>>
    /\ LET total_files == TotalFiles(files, max_downloads)
           submitted == PySlice(files, total_files)
       IN  IF total_files = 0
           THEN /\ pcAll' = "returned"
                /\ UNCHANGED <<executor, pending_futures, task>>
           ELSE /\ pcAll' = "collect"
                /\ executor' = TRUE
                /\ pending_futures' = [i \in 1..Len(submitted) |-> i]
                /\ task' = [i \in 1..Len(submitted) |-> NewTask(submitted[i], "queued", Absent)]
    /\ UNCHANGED <<stop_event, retries, max_downloads, max_workers, save_mode, files, fs, calls, yielded, successful_downloads, qvars, rvars, pvars>>

\* A pool thread takes the oldest queued task and calls download_file.
StartTask(t) ==
    /\ task[t].pc = "queued"
    /\ Cardinality(Running) < max_workers
    /\ \A u \in 1..(t - 1) : task[u].pc # "queued"
    /\ task' = [task EXCEPT ![t] = NewTask(task[t].fi, "entry", fs[GetOutputPath(task[t].fi, save_mode)])]
    /\ UNCHANGED <<stop_event, retries, max_downloads, max_workers, save_mode, files, fs, calls, pcAll, executor, pending_futures, yielded, downloaded_files, failed_files, successful_downloads, qvars, rvars, pvars>>

\* A slip in line 376: the loop over the finished futures does not look at the
\* stop event.
CollectorGoesOn(stop) == FALSE

\* download_all, line 376: `if self.stop_event.is_set()`, on every finished future.
CollectorStops(stop) == stop

\* download_all, lines 375-396: as_completed hands out a finished future; the loop
\* breaks when the stop event is set, and otherwise records the result.
\* For a future that raised, line 390 looks the future up in pending_futures:
\* were the list emptied by shutdown, index would raise ValueError out of
\* download_all.
Collect(t) ==
    /\ pcAll = "collect"
    /\ t \in DOMAIN task
    /\ t \notin yielded
    /\ task[t].pc \in {"done", "cancelled"}
    /\ IF CollectorStops(stop_event)
       THEN /\ pcAll' = "finally"
            /\ UNCHANGED <<yielded, downloaded_files, failed_files, successful_downloads>>
       ELSE /\ yielded' = yielded \cup {t}
            /\ IF task[t].pc = "done" /\ task[t].ret # "raised"
               THEN LET path == task[t].path
                        failed_info == task[t].info
                    IN  /\ pcAll' = pcAll
                        /\ downloaded_files' = IF path # NoPath THEN Append(downloaded_files, path) ELSE downloaded_files
                        /\ successful_downloads' = IF path # NoPath /\ ~Truthy(failed_info) THEN successful_downloads + 1 ELSE successful_downloads
                        /\ failed_files' = IF Truthy(failed_info) THEN Append(failed_files, failed_info) ELSE failed_files
               ELSE IF t \in Range(pending_futures)
               THEN /\ pcAll' = pcAll
                    /\ failed_files' = Append(failed_files, RaisedDescriptor(t))
                    /\ UNCHANGED <<downloaded_files, successful_downloads>>
               ELSE /\ pcAll' = "raised"
                    /\ UNCHANGED <<downloaded_files, failed_files, successful_downloads>>
    /\ UNCHANGED <<stop_event, retries, max_downloads, max_workers, save_mode, files, task, fs, calls, executor, pending_futures, qvars, rvars, pvars>>

\* download_all, line 375: as_completed is exhausted.
CollectEnd ==
    /\ pcAll = "collect"
    /\ yielded = DOMAIN task
    /\ pcAll' = "finally"
    /\ UNCHANGED <<stop_event, retries, max_downloads, max_workers, save_mode, files, task, fs, calls, executor, pending_futures, yielded, downloaded_files, failed_files, successful_downloads, qvars, rvars, pvars>>

\* download_all, lines 397-403: shutdown when the stop event is set, then return.
DownloadAllReturn ==
    /\ pcAll = "finally"
    /\ pcAll' = "returned"
    /\ IF stop_event
       THEN ShutdownBody
       ELSE UNCHANGED <<stop_event, task, executor, pending_futures, session_closed>>
    /\ UNCHANGED <<retries, max_downloads, max_workers, save_mode, files, fs, calls, yielded, downloaded_files, failed_files, successful_downloads, qvars>>
    /\ UNCHANGED <<pcRetry, retry_round, remaining_failed, current_failed, rpos, retry_downloaded, round_queries, unfound, metadata, downloader, pvars>>

\* What one download_file invocation on fi can end with once it is past its entry
\* checks: `return str(output_path), None` (lines 300, 333), `return None, file_info`
\* (lines 326, 345, 353, 357), or an exception other than RequestException and
\* ValueError (an OSError of open, write or rename), which it does not catch.
DownloadFileOutcomes(fi, mode) ==
    {[ret |-> "returned_path", path |-> GetOutputPath(fi, mode), info |-> NoInfo], [ret |-> "returned_info", path |-> NoPath, info |-> fi]} \cup (IF FirstHttpUrl(Get(fi, "url", <<>>)) # 0 THEN {[ret |-> "raised", path |-> NoPath, info |-> NoInfo]} ELSE {})

\* download_file, lines 293-357, run by a pool thread to its return or its exception.
FinishDownload(t) ==
    /\ task[t].pc = "exists"
    /\ \E o \in DownloadFileOutcomes(task[t].fi, save_mode) :
         task' = [task EXCEPT ![t].pc = "done", ![t].ret = o.ret, ![t].path = o.path, ![t].info = o.info]
    /\ UNCHANGED <<stop_event, retries, max_downloads, max_workers, save_mode, files, fs, calls, pcAll, executor, pending_futures, yielded, downloaded_files, failed_files, successful_downloads, qvars, rvars, pvars>>

\* A Downloader was constructed and download_all is called on a list.
InitAll ==
    /\ stop_event \in BOOLEAN
    /\ retries = MaxRetries
    /\ max_downloads \in 0..(MaxFiles + 1)
    /\ max_workers \in 1..MaxWorkers
    /\ save_mode \in {"flat", "structured"}
    /\ files \in SeqsUpTo(BatchDescriptors, MaxFiles)
    /\ fs = [p \in AllPaths |-> Absent]
    /\ task = <<>>
    /\ calls = 0
    /\ pcAll = "start"
    /\ executor = FALSE
    /\ pending_futures = <<>>
    /\ yielded = {}
    /\ downloaded_files = <<>>
    /\ failed_files = <<>>
    /\ successful_downloads = 0
    /\ QueryIdle
    /\ RetryIdle
    /\ PureIdle

NextAll ==
    \/ DownloadAllBegin
    \/ \E t \in DOMAIN task : StartTask(t)
    \/ \E t \in DOMAIN task : Enter(t)
    \/ \E t \in DOMAIN task : FinishDownload(t)
    \/ \E t \in DOMAIN task : Collect(t)
    \/ CollectEnd
    \/ DownloadAllReturn
    \/ Shutdown

SpecAll == InitAll /\ [][NextAll]_vars

\* ------------------------------------------------------------- the query

\* A record of an answer with an id and a title.
Rec(id, title) == [id |-> id, title |-> title]

\* A document on which f.get('id', '') or the test against seen_ids raises (a
\* document that is not a JSON object, an id that is a list).
Malformed == [malformed |-> TRUE]

\* The documents an endpoint may answer with: records that share an id, records
\* that share a title, a record without an id, a record without a title, and a
\* malformed document.
QueryDocs == {Rec("a", "t1"), Rec("a", "t2"), Rec("b", "t1"), [title |-> "t2"], [id |-> "b"], Malformed}

\* The pages (docs) an endpoint may answer with: none, one or two documents.
QueryPages == {<<>>} \cup {<<d>> : d \in QueryDocs} \cup {<<Rec("a", "t1"), Rec("b", "t1")>>, <<[title |-> "t2"], Rec("a", "t2")>>}

\* An endpoint that answers an empty page below its total is asked for ever;
\* one request more than a well-behaved endpoint needs lets that begin.
MaxRequests == MaxFound + 1

\* The loop over node_files in fetch_datasets, from the record at the head of
\* fs_left on, with the seen_ids and unique_files it has built so far; it
\* raises at a malformed document, after seen_ids has changed.
RECURSIVE ScanUnique(_, _, _)
ScanUnique(fs_left, seen, unique_files) ==
    IF fs_left = <<>> THEN [raised |-> FALSE, seen |-> seen, unique |-> unique_files]
    ELSE LET f == Head(fs_left)
         IN  IF f = Malformed THEN [raised |-> TRUE, seen |-> seen, unique |-> unique_files]
             ELSE LET file_id == Get(f, "id", "")
                  IN  IF file_id # "" /\ file_id \notin seen
                      THEN ScanUnique(Tail(fs_left), seen \cup {file_id}, Append(unique_files, f))
                      ELSE ScanUnique(Tail(fs_left), seen, unique_files)

\* The dict comprehension {f['title']: f for f in files if 'title' in f} and
\* list(values()): one entry per title at the position of the title's first
\* record, holding the title's last record.
FilesByTitle(fl) ==
    LET titled == SelectSeq(fl, LAMBDA f : "title" \in DOMAIN f)
        firsts == {i \in 1..Len(titled) : \A j \in 1..(i - 1) : titled[j].title # titled[i].title}
        last(i) == CHOOSE k \in 1..Len(titled) : /\ titled[k].title = titled[i].title
                                                  /\ \A m \in (k + 1)..Len(titled) : titled[m].title # titled[i].title
        RECURSIVE values(_)
        values(i) == IF i > Len(titled) THEN <<>>
                     ELSE IF i \in firsts THEN <<titled[last(i)]>> \o values(i + 1)
                     ELSE values(i + 1)
    IN  values(1)

\* The Downloader is not constructed yet.
NoDownloader ==
    /\ stop_event = FALSE
    /\ retries = 0
    /\ max_downloads = 0
    /\ max_workers = 1
    /\ save_mode = "flat"
    /\ files = <<>>
    /\ fs = [p \in AllPaths |-> Absent]
    /\ task = <<>>
    /\ calls = 0
    /\ pcAll = "none"
    /\ executor = FALSE
    /\ pending_futures = <<>>
    /\ yielded = {}
    /\ downloaded_files = <<>>
    /\ failed_files = <<>>
    /\ successful_downloads = 0

\* The attempt at the current endpoint ends with an exception: both except
\* clauses of fetch_datasets continue with the next endpoint, and the pages
\* fetched from this one are lost.
NodeFailed ==
    /\ outcome' = [outcome EXCEPT ![node] = "failed"]
    /\ node_files' = <<>>
    /\ offset' = 0
    /\ num_found' = NoCount
    /\ node' = node + 1
    /\ qpc' = "node"

\* _fetch_from_node returns nf: fetch_datasets scans it for unseen ids, extends
\* files, and returns if files is not empty.
NodeFetched(nf) ==
    LET scan == ScanUnique(nf, seen_ids, <<>>)
        extended == q_files \o scan.unique
    IN  /\ seen_ids' = scan.seen
        /\ IF scan.raised
           THEN NodeFailed /\ UNCHANGED q_files
           ELSE /\ q_files' = extended
                /\ node_files' = nf
                /\ offset' = 0
                /\ num_found' = NoCount
                /\ IF extended # <<>>
                   THEN /\ outcome' = [outcome EXCEPT ![node] = "returned"]
                        /\ qpc' = "returned"
                        /\ UNCHANGED node
                   ELSE /\ outcome' = [outcome EXCEPT ![node] = "no_files"]
                        /\ node' = node + 1
                        /\ qpc' = "node"

\* A slip in sys.exit(1): the run ends as if it had succeeded.
CleanExit == "exit0"

\* sys.exit(1) (lines 155, 580): where run_download is after it.
FatalExit == "exit1"

\* One iteration of the loop over the endpoints, up to the call of
\* _fetch_from_node; after the last endpoint, sys.exit(1).
FetchDatasetsNode ==
    /\ qpc = "node"
    /\ IF node > NumNodes
       THEN /\ qpc' = "exited"
            /\ rpc' = FatalExit
            /\ UNCHANGED <<node_files, outcome>>
       ELSE IF args_stop_event
       THEN /\ qpc' = "returned"
            /\ UNCHANGED <<node_files, outcome, rpc>>
       ELSE /\ qpc' = "page"
            /\ node_files' = <<>>
            /\ outcome' = [outcome EXCEPT ![node] = "active"]
            /\ UNCHANGED rpc
    /\ UNCHANGED <<args_stop_event, node, offset, num_found, seen_ids, q_files, reqs, working, dvars, rvars, pvars>>

\* The top of the loop of _fetch_from_node: return the pages so far when the
\* stop event is set, else send the request for the page at offset.
FetchFromNodeRequest ==
    /\ qpc = "page"
    /\ IF args_stop_event
       THEN NodeFetched(node_files) /\ UNCHANGED reqs
       ELSE /\ reqs[node] < MaxRequests
            /\ reqs' = [reqs EXCEPT ![node] = @ + 1]
            /\ qpc' = "await"
            /\ UNCHANGED <<node, offset, num_found, node_files, seen_ids, q_files, outcome>>
    /\ UNCHANGED <<args_stop_event, rpc, working, dvars, rvars, pvars>>

\* The request fails: no connection, an error status, a body that is not JSON
\* or not of the expected shape.
FetchFromNodeFails ==
    /\ qpc = "await"
    /\ NodeFailed
    /\ UNCHANGED <<args_stop_event, seen_ids, q_files, reqs, rpc, working, dvars, rvars, pvars>>

\* A slip in line 178: the offset moves on by one record a page.
NextOffsetByOne(off, docs) == off + 1

\* _fetch_from_node, line 178: `offset += len(docs)`.
NextOffset(off, docs) == off + Len(docs)

\* The endpoint answers with a page of documents and a total; the session
\* raises if the stop event was set meanwhile.
FetchFromNodeAnswer ==
    /\ qpc = "await"
    /\ \E docs \in QueryPages, total \in 0..MaxFound :
         IF args_stop_event
         THEN NodeFailed /\ UNCHANGED <<seen_ids, q_files>>
         ELSE IF offset + Len(docs) >= total
         THEN NodeFetched(node_files \o docs)
         ELSE /\ node_files' = node_files \o docs
              /\ num_found' = total
              /\ offset' = NextOffset(offset, docs)
              /\ qpc' = "page"
              /\ UNCHANGED <<node, seen_ids, q_files, outcome>>
    /\ UNCHANGED <<args_stop_event, reqs, rpc, working, dvars, rvars, pvars>>

\* The user stops the query (args.stop_event.set()).
SetArgsStopEvent ==
    /\ ~args_stop_event
    /\ qpc \in {"node", "page", "await"}
    /\ args_stop_event' = TRUE
    /\ UNCHANGED <<qpc, node, offset, num_found, node_files, seen_ids, q_files, reqs, outcome, rpc, working, dvars, rvars, pvars>>

\* run_download after fetch_datasets returned: exit on an empty list, else
\* keep one descriptor per title.
RunDownloadDedup ==
    /\ rpc = "query"
    /\ qpc = "returned"
    /\ IF q_files = <<>>
       THEN rpc' = FatalExit /\ UNCHANGED working
       ELSE rpc' = "deduped" /\ working' = FilesByTitle(q_files)
    /\ UNCHANGED <<args_stop_event, qpc, node, offset, num_found, node_files, seen_ids, q_files, reqs, outcome, dvars, rvars, pvars>>

\* args.retry_failed is set: run_download was called with a failure document
\* to retry, which call carries in place of the path that names it.
RetryFailedGiven == "retry_failed" \in DOMAIN call

\* run_download, lines 590-595: the FileManager creates its directories or exits,
\* save_metadata writes query_results.json or logs its failure, and a dry run
\* ends here.
RunSaveQueryResults ==
    /\ rpc = "deduped"
    /\ \/ rpc' = FatalExit /\ UNCHANGED metadata
       \/ \E written \in BOOLEAN, dry_run \in BOOLEAN :
            /\ metadata' = IF written /\ ~RetryFailedGiven THEN metadata \cup {[name |-> "query_results.json", content |-> working]} ELSE metadata
            /\ rpc' = IF dry_run THEN CleanExit ELSE "saved"
    /\ UNCHANGED <<args_stop_event, qpc, node, offset, num_found, node_files, seen_ids, q_files, reqs, outcome, working, dvars>>
    /\ UNCHANGED <<session_closed, pcRetry, retry_round, remaining_failed, current_failed, rpos, retry_downloaded, round_queries, unfound, downloader, pvars>>

\* run_download, lines 597-607: the Downloader is constructed for the working set.
RunConstruct ==
    /\ rpc = "saved"
    /\ rpc' = "constructed"
    /\ downloader' = TRUE
    /\ files' = working
    /\ UNCHANGED <<args_stop_event, qpc, node, offset, num_found, node_files, seen_ids, q_files, reqs, outcome, working>>
    /\ UNCHANGED <<stop_event, retries, max_downloads, max_workers, save_mode, task, fs, calls, pcAll, executor, pending_futures, yielded, downloaded_files, failed_files, successful_downloads>>
    /\ UNCHANGED <<session_closed, pcRetry, retry_round, remaining_failed, current_failed, rpos, retry_downloaded, round_queries, unfound, metadata, pvars>>

InitQuery ==
    /\ NoDownloader
    /\ RetryIdle
    /\ args_stop_event = FALSE
    /\ qpc = "node"
    /\ node = 1
    /\ offset = 0
    /\ num_found = NoCount
    /\ node_files = <<>>
    /\ seen_ids = {}
    /\ q_files = <<>>
    /\ reqs = [n \in 1..NumNodes |-> 0]
    /\ outcome = [n \in 1..NumNodes |-> "untried"]
    /\ rpc = "query"
    /\ working = <<>>
    /\ PureIdle

NextQuery ==
    \/ FetchDatasetsNode
    \/ FetchFromNodeRequest
    \/ FetchFromNodeFails
    \/ FetchFromNodeAnswer
    \/ SetArgsStopEvent
    \/ RunDownloadDedup
    \/ RunSaveQueryResults
    \/ RunConstruct

SpecQuery == InitQuery /\ [][NextQuery]_vars

\* ------------------------------------------------- claims about download_file

\* The one invocation of SpecFile, its descriptor and its final and temp paths.
T1 == task[1]

Fi1 == T1.fi

Out1 == GetOutputPath(Fi1, save_mode)

Tmp1 == TempPath(Out1)

\* The call found a file at the final path that passes verify_checksum.
ValidAtCall == T1.at_call.exists /\ VerifyChecksum(T1.at_call, Fi1)

\* The call found a file at the final path that fails verify_checksum.
StaleAtCall == T1.at_call.exists /\ ~VerifyChecksum(T1.at_call, Fi1)

\* The descriptor has a non-empty title and a non-empty url list.
HasTitleAndUrl == Get(Fi1, "title", "") # "" /\ Get(Fi1, "url", <<>>) # <<>>

\* The call returned (path, None) with path the final path.
ReturnedPath == T1.pc = "done" /\ T1.ret # "raised" /\ T1.path = Out1 /\ T1.info = NoInfo

\* The call returned (None, file_info).
ReturnedInfo == T1.pc = "done" /\ T1.ret # "raised" /\ T1.path = NoPath /\ T1.info = Fi1

\* C2 as stated: whenever the target file exists and passes verification when
\* download_file is called, the call makes no network request, leaves the file as
\* it was and returns (path, None).
C2_IdempotentUnconditional == ValidAtCall => /\ T1.requested = <<>>
                                              /\ fs[Out1] = T1.at_call
                                              /\ (T1.pc = "done" => ReturnedPath)

\* C2, amended: the same, for a call that finds the stop event unset and a
\* descriptor with a title and a url; a call that ends at one of these two entry
\* checks makes no request and changes no file either, but returns (None, file_info).
C2_Idempotent == ValidAtCall => /\ T1.requested = <<>>
                                 /\ T1.sleeps = <<>>
                                 /\ fs[Out1] = T1.at_call
                                 /\ (T1.pc = "done" => IF T1.ret = "stop_entry" \/ ~HasTitleAndUrl THEN ReturnedInfo ELSE ReturnedPath)

\* C2's case: a repeated call on a verified file returned its path.
C2_Witness == calls = 2 /\ ValidAtCall /\ ReturnedPath /\ Get(Fi1, "checksum", <<EmptyHex>>)[1] # EmptyHex

\* The final path holds what the call found there, nothing, or a complete file that
\* passed verification and was renamed into place: bytes are streamed to the temp
\* path only.
FinalPathOnlyByRename == \/ fs[Out1] = T1.at_call
                         \/ fs[Out1] = Absent
                         \/ /\ fs[Out1].exists
                            /\ VerifyChecksum(fs[Out1], Fi1)
                            /\ fs[Out1].data \in {GoodBody, BadBody}
                            /\ ReturnedPath

\* The call streamed bytes and ended without renaming the temp file: the transfer
\* failed, was cancelled, or an exception left the call.
StreamedNotRenamed == T1.streamed /\ T1.pc = "done" /\ T1.ret # "renamed"

\* C3 as stated: bytes go to the temp path only, the final path is created only by the
\* rename after verification, and after partial streaming and before the rename no
\* file exists at the final path.
C3_AtomicWriteNoFinalFile == FinalPathOnlyByRename /\ (StreamedNotRenamed => ~fs[Out1].exists)

\* C3, amended: ... after partial streaming and before the rename the final path
\* holds no byte of this call: it is absent, or it still holds, unchanged, the file
\* the call found there, which failed verification and could not be removed.
C3_AtomicWrite == FinalPathOnlyByRename /\ (StreamedNotRenamed => \/ fs[Out1] = Absent
                                                                  \/ fs[Out1] = T1.at_call /\ StaleAtCall /\ T1.removed = "unlink_failed")

\* C3's case: the call was cancelled or failed with a partial temp file on disk and
\* nothing at the final path.
C3_Witness == /\ T1.pc = "done"
              /\ T1.ret \in {"stop_stream", "exhausted"}
              /\ T1.streamed
              /\ fs[Tmp1] = File(<<1>>)
              /\ fs[Out1] = Absent
              /\ StaleAtCall

\* The call made fetches, each failed with a transient error (a request exception or
\* a checksum mismatch), and the stop event was never set.
AllFetchesFailed == T1.pc = "done" /\ ~stop_event /\ T1.ret # "raised" /\ T1.requested # <<>> /\ T1.path = NoPath

\* C4: a call whose every fetch fails transiently, without cancellation, makes
\* exactly `retries` retries, the k-th after a wait of 2^k + 5 seconds (k being the
\* attempt that just failed), and returns (None, file_info); no call ever makes more.
C4_RetryBudget == /\ Len(T1.sleeps) <= retries
                  /\ T1.attempt = Len(T1.sleeps) + (IF T1.pc = "sleep" THEN 0 ELSE 1)
                  /\ \A k \in 1..Len(T1.sleeps) : T1.sleeps[k] = Pow(2, k) + 5
                  /\ (AllFetchesFailed => Len(T1.sleeps) = retries /\ ReturnedInfo /\ FirstHttpUrl(Get(Fi1, "url", <<>>)) # 0)

\* C4's case: with a budget of 2 the call failed after waits of 7 and 9 seconds.
C4_Witness == AllFetchesFailed /\ retries = 2 /\ T1.sleeps = <<7, 9>> /\ Len(T1.requested) = 3

\* C5 as stated (for a budget of at least 1): the function calls itself again only
\* while the attempts made are strictly below the budget, so a call makes at most
\* `retries` fetches, and exactly `retries` when it fails for good.
C5_AttemptsWithinBudget == retries >= 1 => /\ (T1.pc = "sleep" => T1.attempt < retries)
                                           /\ Len(T1.requested) <= retries
                                           /\ (AllFetchesFailed => Len(T1.requested) = retries)

\* What the code does instead: a failing call makes retries + 1 fetches.
C5_CodeMakesOneMore == AllFetchesFailed => Len(T1.requested) = retries + 1

Submitted == Take(files, TotalFiles(files, max_downloads))

\* How many descriptors of the list s map to the final path p.
CountPath(s, p) == Cardinality({i \in 1..Len(s) : GetOutputPath(s[i], save_mode) = p})

\* C1 as stated: when download_all returns without cancellation, every submitted
\* descriptor is accounted for exactly once: the two lists together are as long as
\* the submitted list, every failed entry is a submitted descriptor, and per final
\* path the downloaded and the failed entries add up to the descriptors submitted.
C1_EveryInputAccounted == (pcAll = "returned" /\ ~stop_event) =>
    /\ Len(downloaded_files) + Len(failed_files) = Len(Submitted)
    /\ \A d \in Range(failed_files) : Count(failed_files, d) <= Count(Submitted, d)
    /\ \A p \in {GetOutputPath(d, save_mode) : d \in Range(Submitted)} : Count(downloaded_files, p) + CountPath(failed_files, p) = CountPath(Submitted, p)

\* The same accounting for lists without the empty dict.
AccountedUnlessEmptyDict == EmptyDict \notin Range(Submitted) => C1_EveryInputAccounted

\* -------------------------------------------------- claims about the query

\* The id of a record, "" when it has none.
IdOf(f) == Get(f, "id", "")

\* The records of s at the positions in I, in the order of s.
SubseqAt(s, I) ==
    LET RECURSIVE from(_)
        from(i) == IF i > Len(s) THEN <<>>
                   ELSE IF i \in I THEN <<s[i]>> \o from(i + 1)
                   ELSE from(i + 1)
    IN  from(1)

\* The deduplication key the specification gives a record: its id when it has
\* one, else its filename.
DedupKey(f) == IF IdOf(f) # "" THEN <<"id", IdOf(f)>> ELSE <<"title", Get(f, "title", "")>>

\* The first record of s for every deduplication key, in the order of s.
FirstPerKey(s) == SubseqAt(s, {i \in 1..Len(s) : \A j \in 1..(i - 1) : DedupKey(s[j]) # DedupKey(s[i])})

\* The first record of s for every id, in the order of s.
FirstPerId(s) == SubseqAt(s, {i \in 1..Len(s) : IdOf(s[i]) # "" /\ \A j \in 1..(i - 1) : IdOf(s[j]) # IdOf(s[i])})

\* fetch_datasets has returned the records of the endpoint it is at.
ReturnedFromNode == qpc = "returned" /\ outcome[node] = "returned"

\* fetch_datasets has just passed over an endpoint as one without files;
\* node_files still holds what that endpoint yielded.
PassedOver == qpc = "node" /\ node > 1 /\ outcome[node - 1] = "no_files"

\* seen_ids holds an id of no kept record: an endpoint failed while its records
\* were scanned.
Polluted == seen_ids # {IdOf(q_files[i]) : i \in 1..Len(q_files)}

\* C7 (as the specification states it): the endpoints are tried in list order;
\* endpoint i+1 receives a request only after endpoint i failed or yielded zero
\* records; as soon as an endpoint yields a record the call returns exactly that
\* endpoint's deduplicated records and no later endpoint receives a request; an
\* endpoint that reports zero matches receives no second request.
C7_EndpointFailover ==
    /\ \A n \in 1..NumNodes : reqs[n] > 0 => n <= node /\ \A m \in 1..(n - 1) : outcome[m] \in {"failed", "no_files"}
    /\ PassedOver => node_files = <<>>
    /\ ReturnedFromNode => q_files = FirstPerKey(node_files) /\ \A m \in (node + 1)..NumNodes : reqs[m] = 0
    /\ (qpc = "page" /\ reqs[node] > 0) => num_found # 0

\* The same failover, while every record the endpoint yielded has an id and no
\* endpoint failed during the scan of its records.
FailoverOfRecordsWithIds == (~Polluted /\ \A i \in 1..Len(node_files) : IdOf(node_files[i]) # "") => C7_EndpointFailover

\* A call in which the first endpoint reported zero matches and the second one
\* yielded two records with distinct ids.
FailoverReached == ReturnedFromNode /\ node = 2 /\ outcome[1] = "no_files" /\ reqs[1] = 1 /\ Len(q_files) = 2

\* C8 (as the specification states it): the list fetch_datasets returns holds,
\* for every id in the pages of the endpoint, exactly the first record with that
\* id, in the order of the pages.
C8_FirstRecordPerId == ReturnedFromNode => q_files = FirstPerId(node_files)

\* The same, while no endpoint failed during the scan of its records.
FirstRecordPerIdUnlessPolluted == ~Polluted => C8_FirstRecordPerId

\* A call that returned one record per id from pages holding an id twice.
DuplicateIdsReached == ReturnedFromNode /\ ~Polluted /\ Len(node_files) = 3 /\ Len(q_files) = 2

\* A record without an id that has a filename.
IdlessTitled(f) == IdOf(f) = "" /\ Get(f, "title", "") # ""

\* C9 (as the specification states it): a record without an id is kept under
\* its filename: its endpoint is not passed over as one without files, the
\* returned list holds a record without an id of that filename, and so does the
\* working set.
C9_IdlessRecordKept ==
    /\ PassedOver => \A i \in 1..Len(node_files) : ~IdlessTitled(node_files[i])
    /\ ReturnedFromNode => \A i \in 1..Len(node_files) : IdlessTitled(node_files[i]) =>
         /\ \E j \in 1..Len(q_files) : IdlessTitled(q_files[j]) /\ q_files[j].title = node_files[i].title
         /\ rpc = "deduped" => \E j \in 1..Len(working) : working[j].title = node_files[i].title

\* What the code does instead: no returned record is without an id.
IdlessRecordsDropped == \A j \in 1..Len(q_files) : IdOf(q_files[j]) # ""

\* C10 (as the specification states it): after the deduplication by title no two
\* descriptors of the working set share a title, and the descriptor kept for a
\* title is the first one of the query results with it.
C10_FirstPerTitle == rpc = "deduped" =>
    /\ \A i, j \in 1..Len(working) : working[i].title = working[j].title => i = j
    /\ \A i \in 1..Len(working) : \E k \in 1..Len(q_files) :
         /\ working[i] = q_files[k]
         /\ \A m \in 1..(k - 1) : Get(q_files[m], "title", "") # working[i].title

\* What the code does instead: no two descriptors share a title, and the one
\* kept for a title is the last one of the query results with it.
LastPerTitle == rpc = "deduped" =>
    /\ \A i, j \in 1..Len(working) : working[i].title = working[j].title => i = j
    /\ \A i \in 1..Len(working) : \E k \in 1..Len(q_files) :
         /\ working[i] = q_files[k]
         /\ \A m \in (k + 1)..Len(q_files) : Get(q_files[m], "title", "") # working[i].title

\* A working set made from query results in which two records share a title.
SharedTitleReached == rpc = "deduped" /\ Len(q_files) = 2 /\ Len(working) = 1

\* Every endpoint was tried and none gave fetch_datasets a record to return.
AllNodesTried == \A n \in 1..NumNodes : outcome[n] \in {"failed", "no_files"}

\* C11: once every endpoint has failed or yielded no record, the run can only
\* end fatally: fetch_datasets does not return, run_download ends with exit code
\* 1, and no Downloader is constructed, no download task exists and no metadata
\* is written.
C11_FatalWhenNothingFound == AllNodesTried =>
    /\ qpc \in {"node", "exited"}
    /\ rpc \in {"query", "exit1"}
    /\ qpc = "exited" <=> rpc = "exit1"
    /\ ~downloader /\ task = <<>> /\ metadata = {}

\* C11's case: one endpoint failed, the other reported nothing, and the run ended.
C11_Witness == qpc = "exited" /\ rpc = "exit1" /\ outcome = <<"failed", "no_files">> /\ ~args_stop_event

\* download_all is called on a Downloader whose stop event may already be set,
\* with the pool size and the directory layout fixed, and with no cap or a cap
\* of one on the number of files.
InitBatch ==
    /\ stop_event \in BOOLEAN
    /\ retries = MaxRetries
    /\ max_downloads \in {0, 1}
    /\ max_workers = MaxWorkers
    /\ save_mode = "flat"
    /\ files \in SeqsUpTo(BatchDescriptors, MaxFiles)
    /\ fs = [p \in AllPaths |-> Absent]
    /\ task = <<>>
    /\ calls = 0
    /\ pcAll = "start"
    /\ executor = FALSE
    /\ pending_futures = <<>>
    /\ yielded = {}
    /\ downloaded_files = <<>>
    /\ failed_files = <<>>
    /\ successful_downloads = 0
    /\ QueryIdle
    /\ RetryIdle
    /\ PureIdle

SpecBatch == InitBatch /\ [][NextAll]_vars

\* No task of the batch went past the stop check of download_file, and nothing
\* was recorded as downloaded or failed.
NothingAttempted ==
    /\ \A t \in DOMAIN task : /\ task[t].pc \in {"queued", "entry", "cancelled", "done"}
                              /\ task[t].pc = "done" => task[t].ret = "stop_entry" /\ task[t].path = NoPath
                              /\ task[t].requested = <<>>
    /\ downloaded_files = <<>>
    /\ failed_files = <<>>
    /\ successful_downloads = 0
    /\ fs = [p \in AllPaths |-> Absent]

\* C12: when the stop event is set before download_all is called with a
\* non-empty list, no task gets past the stop check of download_file, so no
\* download request is made, and download_all returns ([], []).
C12_CancelledBatchIsEmpty == (stop_event /\ files # <<>>) => [](NothingAttempted)

\* C12's case: download_all returned on a non-empty list all of whose tasks ran
\* into the stop check.
C12_Witness ==
    /\ pcAll = "returned" /\ files # <<>> /\ task # <<>>
    /\ \A t \in DOMAIN task : task[t].pc = "done" /\ task[t].ret = "stop_entry"
    /\ downloaded_files = <<>> /\ failed_files = <<>>

\* An invocation of download_file that starts while the stop event is set returns
\* (None, file_info) from its first statement: nothing else of the task changes
\* (no request is recorded) and the file system is left alone.
SkippedWhenSet ==
    \A t \in DOMAIN task :
        (stop_event /\ task[t].pc = "entry" /\ t \in DOMAIN task' /\ task'[t] # task[t]) =>
            /\ task'[t] = [task[t] EXCEPT !.pc = "done", !.ret = "stop_entry", !.path = NoPath, !.info = task[t].fi]
            /\ fs' = fs

\* C13: a stop event is never cleared once set (the Downloader's, and the one the
\* QueryHandler and its session share), and a download_file invocation that
\* starts after it is set returns (None, file_info) without validating the
\* descriptor, touching the file system or making a request.
C13_StopIsTerminal ==
    [][/\ stop_event => stop_event'
       /\ args_stop_event => args_stop_event'
       /\ SkippedWhenSet]_vars

\* C13's case: an invocation started after the stop event was set and returned
\* at the stop check.
C13_Witness == stop_event /\ T1.pc = "done" /\ T1.ret = "stop_entry" /\ T1.path = NoPath /\ T1.info = Fi1 /\ T1.requested = <<>>

\* ------------------------------------------------------------ retry_failed

\* A descriptor as download_all handed it back, with the url captured at query time.
Stale(title) == Desc(title, <<Url("u1", "HTTPServer")>>, GoodChecksum)

\* The record the endpoints hold for the same file by now, under a new url.
Fresh(title) == Desc(title, <<Url("u9", "HTTPServer")>>, GoodChecksum)

\* The descriptors the lists handed to retry_failed are drawn from; the last one
\* has an empty title.
RetryInputs == {Stale("t1"), Stale("t2"), Stale("")}

\* The lists handed to retry_failed: as run_download keeps one descriptor per
\* title (line 582), no descriptor occurs twice.
RetryLists == {s \in SeqsUpTo(RetryInputs, MaxFiles) : \A i, j \in 1..Len(s) : i # j => s[i] # s[j]}

\* The records the endpoints may answer a re-query with: the first file under a
\* new url, the second as it was.
Catalog == {Fresh("t1"), Stale("t2")}

\* fetch_specific_file returned the record f.
Found(f) == [kind |-> "found", info |-> f]

\* fetch_specific_file returned None.
NotFound == [kind |-> "none", info |-> NoInfo]

\* fetch_specific_file raised: params['title'] (line 206) raises KeyError when the
\* title was filtered out of params at line 199, and an exception of
\* _fetch_from_node other than RequestException (a malformed answer) is not caught.
QueryRaised == [kind |-> "raised", info |-> NoInfo]

\* fetch_specific_file without the comparison of titles at line 208: any
\* record the index knows may come back.
FetchAnyFile(file_info, stop) ==
    IF stop THEN {NotFound}
    ELSE {Found(f) : f \in Catalog} \cup {NotFound, QueryRaised}

\* QueryHandler.fetch_specific_file, lines 187-218, summarised by what it can end
\* with when the stop event is as given at its first check: None at once when it
\* is set; KeyError for a descriptor without a title; otherwise the first record
\* with the descriptor's title from some endpoint, None when no endpoint has one,
\* or the exception of a malformed answer.
FetchSpecificFile(file_info, stop) ==
    IF stop THEN {NotFound}
    ELSE IF Get(file_info, "title", "") = "" THEN {QueryRaised}
    ELSE {Found(f) : f \in {c \in Catalog : Get(c, "title", "") = Get(file_info, "title", "")}} \cup {NotFound, QueryRaised}

\* A slip in line 444: the descriptor captured earlier is submitted, not the one
\* the re-query returned.
SubmittedStale(file_info, updated_file_info) == file_info

\* retry_failed, line 444: the descriptor download_file is submitted with.
SubmittedDescriptor(file_info, updated_file_info) == updated_file_info

\* A slip in line 416: the loop runs one round more than the budget.
OneMoreRound(round, budget) == round <= budget

\* retry_failed, line 416: `retry_round < self.retries`.
RoundsLeft(round, budget) == round < budget

\* A slip in line 417: a round is started without a look at the stop event.
NoStopAtRoundHead(stop) == FALSE

\* retry_failed, lines 417-420: `if self.stop_event.is_set()` at the head of a
\* round, which returns downloaded_files and remaining_failed as they are.
StopAtRoundHead(stop) == stop

\* retry_failed, lines 406-414: nothing to retry, or the locals are set up.
RetryBegin ==
    /\ pcRetry = "start"
    /\ retry_downloaded' = <<>>
    /\ retry_round' = 0
    /\ IF failed_files = <<>>
       THEN pcRetry' = "returned" /\ remaining_failed' = <<>>
       ELSE pcRetry' = "while" /\ remaining_failed' = failed_files
    /\ UNCHANGED <<dvars, qvars, session_closed, current_failed, rpos, round_queries, unfound, metadata, downloader, pvars>>

\* The descriptors for which the re-query of the current round returned None.
NotFoundThisRound == {round_queries[i].file_info : i \in {j \in 1..Len(round_queries) : round_queries[j].result.kind = "none"}}

\* retry_failed, lines 416-428 and 476: the loop condition, the stop check at the
\* head of a round, and the set-up of the round's pool.
RetryWhile ==
    /\ pcRetry = "while"
    /\ IF remaining_failed # <<>> /\ RoundsLeft(retry_round, retries) /\ ~StopAtRoundHead(stop_event)
       THEN /\ pcRetry' = "submit"
            /\ retry_round' = retry_round + 1
            /\ current_failed' = <<>>
            /\ executor' = TRUE
            /\ pending_futures' = <<>>
            /\ task' = <<>>
            /\ yielded' = {}
            /\ rpos' = 1
            /\ round_queries' = <<>>
            /\ unfound' = unfound \cup NotFoundThisRound
       ELSE /\ pcRetry' = "returned"
            /\ UNCHANGED <<retry_round, current_failed, executor, pending_futures, task, yielded, rpos, round_queries, unfound>>
    /\ UNCHANGED <<stop_event, retries, max_downloads, max_workers, save_mode, files, fs, calls, pcAll, downloaded_files, failed_files, successful_downloads, qvars>>
    /\ UNCHANGED <<session_closed, remaining_failed, retry_downloaded, metadata, downloader, pvars>>

\* retry_failed, lines 429-445: one iteration of the loop over remaining_failed:
\* the stop check, the re-query, and the submission of the record it returned.
RetrySubmit ==
    /\ pcRetry = "submit"
    /\ IF rpos > Len(remaining_failed) \/ stop_event
       THEN /\ pcRetry' = "collect"
            /\ rpos' = 0
            /\ UNCHANGED <<current_failed, task, pending_futures, round_queries, unfound>>
       ELSE LET file_info == remaining_failed[rpos]
            IN  \E q \in FetchSpecificFile(file_info, stop_event) :
                  /\ round_queries' = Append(round_queries, [file_info |-> file_info, result |-> q])
                  /\ IF q.kind = "raised"
                     THEN /\ pcRetry' = "finally_raise"
                          /\ rpos' = 0
                          /\ UNCHANGED <<current_failed, task, pending_futures, unfound>>
                     ELSE IF q.kind = "none"
                     THEN /\ pcRetry' = pcRetry
                          /\ rpos' = rpos + 1
                          /\ current_failed' = Append(current_failed, file_info)
                          /\ UNCHANGED <<task, pending_futures, unfound>>
                     ELSE /\ pcRetry' = pcRetry
                          /\ rpos' = rpos + 1
                          /\ task' = Append(task, NewTask(SubmittedDescriptor(file_info, q.info), "queued", Absent))
                          /\ pending_futures' = Append(pending_futures, Len(task) + 1)
                          /\ UNCHANGED <<current_failed, unfound>>
    /\ UNCHANGED <<stop_event, retries, max_downloads, max_workers, save_mode, files, fs, calls, pcAll, executor, yielded, downloaded_files, failed_files, successful_downloads, qvars>>
    /\ UNCHANGED <<session_closed, retry_round, remaining_failed, retry_downloaded, metadata, downloader, pvars>>

\* retry_failed, lines 430-444, racing with shutdown on another thread: the stop
\* check passed and the re-query found a record, the other thread then set
\* self.executor to None, and self.executor.submit raises AttributeError.
RetrySubmitRaced ==
    /\ pcRetry = "submit"
    /\ rpos <= Len(remaining_failed)
    /\ ~stop_event
    /\ \E q \in FetchSpecificFile(remaining_failed[rpos], stop_event) :
         /\ q.kind = "found"
         /\ round_queries' = Append(round_queries, [file_info |-> remaining_failed[rpos], result |-> q])
    /\ ShutdownBody
    /\ pcRetry' = "finally_raise"
    /\ rpos' = 0
    /\ UNCHANGED <<retries, max_downloads, max_workers, save_mode, files, fs, calls, pcAll, yielded, downloaded_files, failed_files, successful_downloads, qvars>>
    /\ UNCHANGED <<retry_round, remaining_failed, current_failed, retry_downloaded, unfound, metadata, downloader, pvars>>

\* What the pool thread's download_file call on the record fi ends with when the
\* stop event is not set while it runs: the validation of lines 286-291 fails, or
\* the download runs to one of its ends.
RetryTaskOutcomes(fi) ==
    IF Get(fi, "url", <<>>) = <<>> \/ Get(fi, "title", "") = ""
    THEN {[ret |-> "invalid", path |-> NoPath, info |-> fi]}
    ELSE DownloadFileOutcomes(fi, save_mode)

\* retry_failed, lines 447-468: the pool has run download_file on a submitted
\* record (the tasks start in the order of submission, max_workers at a time)
\* and as_completed hands out its future.  The loop breaks when the stop event
\* is set, and otherwise records the result, taking the descriptor of a future
\* that raised from remaining_failed at the future's position in pending_futures.
RetryCollect(t) ==
    /\ pcRetry = "collect"
    /\ t \in DOMAIN task
    /\ t \notin yielded
    /\ IF stop_event
       THEN /\ task[t].pc \in {"done", "cancelled"}
            /\ pcRetry' = "finally"
            /\ UNCHANGED <<task, yielded, retry_downloaded, current_failed, successful_downloads>>
       ELSE /\ task[t].pc = "queued"
            /\ Cardinality({u \in 1..(t - 1) : task[u].pc # "done"}) < max_workers
            /\ pcRetry' = pcRetry
            /\ yielded' = yielded \cup {t}
            /\ \E o \in RetryTaskOutcomes(task[t].fi) :
                 LET file_info == remaining_failed[Index(pending_futures, t)]
                     path == o.path
                     failed_info == o.info
                 IN  /\ task' = [task EXCEPT ![t].pc = "done", ![t].ret = o.ret, ![t].path = o.path, ![t].info = o.info]
                     /\ IF o.ret # "raised"
                        THEN /\ retry_downloaded' = IF path # NoPath THEN Append(retry_downloaded, path) ELSE retry_downloaded
                             /\ successful_downloads' = IF path # NoPath THEN successful_downloads + 1 ELSE successful_downloads
                             /\ current_failed' = IF Truthy(failed_info) THEN Append(current_failed, failed_info) ELSE current_failed
                        ELSE /\ current_failed' = Append(current_failed, file_info)
                             /\ UNCHANGED <<retry_downloaded, successful_downloads>>
    /\ UNCHANGED <<stop_event, retries, max_downloads, max_workers, save_mode, files, fs, calls, pcAll, executor, pending_futures, downloaded_files, failed_files, qvars>>
    /\ UNCHANGED <<session_closed, retry_round, remaining_failed, rpos, round_queries, unfound, metadata, downloader, pvars>>

\* retry_failed, lines 447-452, racing with shutdown on another thread: the stop
\* check passed, the other thread then emptied self.pending_futures, and
\* self.pending_futures.index(future) raises ValueError.
RetryCollectRaced(t) ==
    /\ pcRetry = "collect"
    /\ t \in DOMAIN task
    /\ t \notin yielded
    /\ task[t].pc = "queued"
    /\ ~stop_event
    /\ ShutdownBody
    /\ pcRetry' = "finally_raise"
    /\ UNCHANGED <<retries, max_downloads, max_workers, save_mode, files, fs, calls, pcAll, yielded, downloaded_files, failed_files, successful_downloads, qvars>>
    /\ UNCHANGED <<retry_round, remaining_failed, current_failed, rpos, retry_downloaded, round_queries, unfound, metadata, downloader, pvars>>

\* retry_failed, line 447: as_completed is exhausted (at once when the list it is
\* given is empty).
RetryCollectEnd ==
    /\ pcRetry = "collect"
    /\ yielded = DOMAIN task \/ pending_futures = <<>>
    /\ pcRetry' = "finally"
    /\ UNCHANGED <<dvars, qvars, session_closed, retry_round, remaining_failed, current_failed, rpos, retry_downloaded, round_queries, unfound, metadata, downloader, pvars>>

\* retry_failed, lines 470-474: shutdown when the stop event is set; then the round
\* ends with remaining_failed = current_failed, or the exception goes on.
RetryFinally ==
    /\ pcRetry \in {"finally", "finally_raise"}
    /\ IF stop_event
       THEN ShutdownBody
       ELSE UNCHANGED <<stop_event, task, executor, pending_futures, session_closed>>
    /\ IF pcRetry = "finally"
       THEN pcRetry' = "while" /\ remaining_failed' = current_failed
       ELSE pcRetry' = "raised" /\ UNCHANGED remaining_failed
    /\ UNCHANGED <<retries, max_downloads, max_workers, save_mode, files, fs, calls, pcAll, yielded, downloaded_files, failed_files, successful_downloads, qvars>>
    /\ UNCHANGED <<retry_round, current_failed, rpos, retry_downloaded, round_queries, unfound, metadata, downloader, pvars>>

\* A Downloader was constructed and retry_failed is called on a list.
InitRetry ==
    /\ stop_event \in BOOLEAN
    /\ retries \in 0..MaxRetries
    /\ max_downloads = 0
    /\ max_workers = MaxWorkers
    /\ save_mode = "flat"
    /\ files = <<>>
    /\ fs = [p \in AllPaths |-> Absent]
    /\ task = <<>>
    /\ calls = 0
    /\ pcAll = "none"
    /\ executor = FALSE
    /\ pending_futures = <<>>
    /\ yielded = {}
    /\ downloaded_files = <<>>
    /\ failed_files \in RetryLists
    /\ successful_downloads = 0
    /\ QueryIdle
    /\ session_closed = FALSE
    /\ pcRetry = "start"
    /\ retry_round = 0
    /\ remaining_failed = <<>>
    /\ current_failed = <<>>
    /\ rpos = 0
    /\ retry_downloaded = <<>>
    /\ round_queries = <<>>
    /\ unfound = {}
    /\ metadata = {}
    /\ downloader = TRUE
    /\ PureIdle

NextRetry ==
    \/ RetryBegin
    \/ RetryWhile
    \/ RetrySubmit
    \/ RetrySubmitRaced
    \/ \E t \in DOMAIN task : RetryCollect(t)
    \/ \E t \in DOMAIN task : RetryCollectRaced(t)
    \/ RetryCollectEnd
    \/ RetryFinally
    \/ Shutdown

SpecRetry == InitRetry /\ [][NextRetry]_vars

\* retry_failed under the scheduling the claim of termination assumes: every
\* re-query and every download_file call ends, so a step that can be taken is
\* taken.
SpecRetryFair == InitRetry /\ [][NextRetry]_vars /\ WF_vars(NextRetry)

\* A round of retry_failed is in progress.
InRound == pcRetry \in {"submit", "collect", "finally", "finally_raise"}

\* The rounds stay within the budget; a round is only under way on a non-empty
\* list; and a return without the stop event happens when nothing remains or the
\* budget is used up.
RoundsWithinBudget ==
    /\ retry_round <= retries
    /\ InRound => retry_round >= 1 /\ remaining_failed # <<>>
    /\ (pcRetry = "returned" /\ ~stop_event /\ failed_files # <<>>) => (remaining_failed = <<>> \/ retry_round = retries)
    /\ (pcRetry = "returned" /\ failed_files = <<>>) => retry_round = 0

\* C14: retry_failed runs at most `retries` rounds, starts no round once no
\* failed descriptor remains, and ends (by returning or raising) when every
\* re-query and every download_file call ends.
C14_BoundedRounds == [](RoundsWithinBudget) /\ <>(pcRetry \in {"returned", "raised"})

\* C14's case: the call returned after its last round with a descriptor still
\* failed.
C14_Witness == pcRetry = "returned" /\ ~stop_event /\ retries = MaxRetries /\ retry_round = retries /\ remaining_failed # <<>>

\* The re-query found a record.
IsFound(q) == q.result.kind = "found"

\* The records the re-queries of the current round returned, in order.
FoundThisRound == SelectSeq(round_queries, IsFound)

\* C15: in every round the tasks submitted are, one for one and in order, for the
\* records fetch_specific_file returned in that round: each is submitted after
\* its re-query, and the descriptor captured earlier is never the one submitted.
C15_SubmitsOnlyRequeried ==
    /\ Len(task) <= Len(FoundThisRound)
    /\ \A i \in DOMAIN task : /\ task[i].fi = FoundThisRound[i].result.info
                              /\ task[i].fi \in Catalog
                              /\ task[i].fi # Stale("t1")

\* C15's case: the task for the first failed descriptor was submitted with the
\* record under the new url that the re-query returned.
C15_Witness == pcRetry = "collect" /\ remaining_failed # <<>> /\ remaining_failed[1] = Stale("t1") /\ task # <<>> /\ task[1].fi = Fresh("t1") /\ task[1].pc = "done"

\* C16: a descriptor for which the re-query of some round found no record is not
\* re-queried (and so not re-attempted) in any later round, and it is in the
\* failed list retry_failed returns.
C16_UnfoundDropped ==
    /\ \A i \in 1..Len(round_queries) : round_queries[i].file_info \notin unfound
    /\ pcRetry = "returned" => (unfound \cup NotFoundThisRound) \subseteq Range(remaining_failed)

\* retry_failed has made no re-query and submitted no download, and what it
\* returns is ([], failed_files): the input list, in its order.
NothingRetried ==
    /\ pcRetry \in {"start", "while", "returned"}
    /\ retry_round = 0
    /\ round_queries = <<>>
    /\ task = <<>>
    /\ retry_downloaded = <<>>
    /\ successful_downloads = 0
    /\ pcRetry \in {"while", "returned"} => remaining_failed = failed_files

\* C17: when the stop event is set before retry_failed is called on a non-empty
\* list, the call makes no re-query and no download and returns ([], failed)
\* with failed the input list, same descriptors in the same order.
C17_CancelledRetryReturnsInput == (stop_event /\ failed_files # <<>>) => [](NothingRetried)

\* C17's case: the call returned a two-descriptor input list untouched with the
\* stop event set and the retry budget unused.
C17_Witness == pcRetry = "returned" /\ stop_event /\ retries > 0 /\ Len(failed_files) = 2 /\ remaining_failed = failed_files /\ retry_downloaded = <<>> /\ round_queries = <<>> /\ ~session_closed

\* The state a call of shutdown leaves: the stop event set, no executor, no
\* pending futures, the session closed.
ShutDown == stop_event /\ ~executor /\ pending_futures = <<>> /\ session_closed

\* What a call of shutdown does to the tasks: the submitted ones that have not
\* started are cancelled, every other task is left as it is.
CancelsQueued ==
    /\ DOMAIN task' = DOMAIN task
    /\ \A t \in DOMAIN task :
         task'[t] = IF t \in Range(pending_futures) /\ task[t].pc = "queued" THEN [task[t] EXCEPT !.pc = "cancelled"] ELSE task[t]

C20_PerFileErrorsContained ==
    \A i \in 1..Len(round_queries) :
        round_queries[i].result.kind = "raised" =>
            /\ pcRetry \notin {"finally_raise", "raised"}
            /\ pcRetry = "returned" => round_queries[i].file_info \in Range(remaining_failed)

\* ------------------------------------- run_download, from the Downloader on

\* The state of the query, which is over once the Downloader exists.
qlocals == <<args_stop_event, qpc, node, offset, num_found, node_files, seen_ids, q_files, reqs, outcome, working>>

\* save_metadata handed the failed list of download_all whatever list it is given
SaveMetadataOfFirstPass(list, filename, written) == IF written THEN metadata \cup {[name |-> filename, content |-> failed_files]} ELSE metadata

\* FileManager.save_metadata, lines 101-108: the file is written, or the error is
\* logged and nothing is raised.
SaveMetadata(list, filename, written) == IF written THEN metadata \cup {[name |-> filename, content |-> list]} ELSE metadata

\* A slip in lines 621-622: shutdown is called at the end of the try body, and
\* not when an exception leaves it.
ReleasedOnSuccess(raising) == ~raising

\* run_download, lines 621-622: the finally clause runs on either way out.
ReleasedOnExit(raising) == TRUE

\* run_download, lines 609-613: download_all has returned; with a non-empty failed
\* list failed_downloads.json is saved and retry_failed is called on it.
RunAfterDownloadAll ==
    /\ rpc = "download_all"
    /\ pcAll = "returned"
    /\ IF failed_files # <<>>
       THEN /\ \E written \in BOOLEAN : metadata' = SaveMetadata(failed_files, "failed_downloads.json", written)
            /\ rpc' = "retry_failed"
            /\ pcRetry' = "start"
       ELSE /\ rpc' = "finally"
            /\ UNCHANGED <<metadata, pcRetry>>
    /\ UNCHANGED <<dvars, qlocals, session_closed, retry_round, remaining_failed, current_failed, rpos, retry_downloaded, round_queries, unfound, downloader, pvars>>

\* run_download, lines 613-620: retry_failed has returned; its paths are added to
\* the downloaded ones and a non-empty failed list is saved as
\* failed_downloads_final.json.
RunAfterRetry ==
    /\ rpc = "retry_failed"
    /\ pcRetry = "returned"
    /\ downloaded_files' = downloaded_files \o retry_downloaded
    /\ \E written \in BOOLEAN :
         metadata' = IF remaining_failed # <<>> THEN SaveMetadata(remaining_failed, "failed_downloads_final.json", written) ELSE metadata
    /\ rpc' = "finally"
    /\ UNCHANGED <<stop_event, retries, max_downloads, max_workers, save_mode, files, task, fs, calls, pcAll, executor, pending_futures, yielded, failed_files, successful_downloads, qlocals>>
    /\ UNCHANGED <<session_closed, pcRetry, retry_round, remaining_failed, current_failed, rpos, retry_downloaded, round_queries, unfound, downloader, pvars>>

\* run_download, line 613: retry_failed raised; control goes to the finally clause.
RunRetryRaised ==
    /\ rpc = "retry_failed"
    /\ pcRetry = "raised"
    /\ rpc' = "finally_raise"
    /\ UNCHANGED <<dvars, qlocals, rvars, pvars>>

\* An interruption of the main thread (KeyboardInterrupt) inside the try block of
\* lines 608-620: the finally clause of download_all or retry_failed, if one of
\* them is running, shuts down when the stop event is set, and the exception goes
\* to the finally clause of run_download.
RunInterrupted ==
    /\ rpc \in {"download_all", "retry_failed"}
    /\ rpc' = "finally_raise"
    /\ pcAll' = IF pcAll \in {"start", "collect", "finally"} THEN "raised" ELSE pcAll
    /\ pcRetry' = IF pcRetry \in {"start", "while", "submit", "collect", "finally", "finally_raise"} THEN "raised" ELSE pcRetry
    /\ IF stop_event /\ (pcAll \in {"collect", "finally"} \/ pcRetry \in {"submit", "collect", "finally", "finally_raise"})
       THEN ShutdownBody
       ELSE UNCHANGED <<stop_event, task, executor, pending_futures, session_closed>>
    /\ UNCHANGED <<retries, max_downloads, max_workers, save_mode, files, fs, calls, yielded, downloaded_files, failed_files, successful_downloads, qlocals>>
    /\ UNCHANGED <<retry_round, remaining_failed, current_failed, rpos, retry_downloaded, round_queries, unfound, metadata, downloader, pvars>>

\* run_download, lines 621-625: the finally clause calls downloader.shutdown(), and
\* run_download returns or the exception leaves it.
RunFinally ==
    /\ rpc \in {"finally", "finally_raise"}
    /\ rpc' = IF rpc = "finally" THEN "returned" ELSE "raised"
    /\ IF ReleasedOnExit(rpc = "finally_raise")
       THEN ShutdownBody
       ELSE UNCHANGED <<stop_event, task, executor, pending_futures, session_closed>>
    /\ UNCHANGED <<retries, max_downloads, max_workers, save_mode, files, fs, calls, pcAll, yielded, downloaded_files, failed_files, successful_downloads, qlocals>>
    /\ UNCHANGED <<pcRetry, retry_round, remaining_failed, current_failed, rpos, retry_downloaded, round_queries, unfound, metadata, downloader, pvars>>

\* run_download has constructed the Downloader (line 607) and enters the try
\* block with the list download_all is called on.
InitRunOn(lists) ==
    /\ stop_event = FALSE
    /\ retries \in 0..MaxRetries
    /\ max_downloads = 0
    /\ max_workers = MaxWorkers
    /\ save_mode = "flat"
    /\ files \in lists
    /\ fs = [p \in AllPaths |-> Absent]
    /\ task = <<>>
    /\ calls = 0
    /\ pcAll = "start"
    /\ executor = FALSE
    /\ pending_futures = <<>>
    /\ yielded = {}
    /\ downloaded_files = <<>>
    /\ failed_files = <<>>
    /\ successful_downloads = 0
    /\ args_stop_event = FALSE
    /\ qpc = "returned"
    /\ node = 1
    /\ offset = 0
    /\ num_found = NoCount
    /\ node_files = <<>>
    /\ seen_ids = {}
    /\ q_files = <<>>
    /\ reqs = <<>>
    /\ outcome = <<>>
    /\ rpc = "download_all"
    /\ working = files
    /\ session_closed = FALSE
    /\ pcRetry = "none"
    /\ retry_round = 0
    /\ remaining_failed = <<>>
    /\ current_failed = <<>>
    /\ rpos = 0
    /\ retry_downloaded = <<>>
    /\ round_queries = <<>>
    /\ unfound = {}
    /\ metadata = {}
    /\ downloader = TRUE
    /\ PureIdle

\* The run on lists of descriptors captured at query time.
InitRun == InitRunOn(RetryLists)

NextRun ==
    \/ DownloadAllBegin
    \/ \E t \in DOMAIN task : rpc = "download_all" /\ StartTask(t)
    \/ \E t \in DOMAIN task : rpc = "download_all" /\ Enter(t)
    \/ \E t \in DOMAIN task : rpc = "download_all" /\ FinishDownload(t)
    \/ \E t \in DOMAIN task : Collect(t)
    \/ CollectEnd
    \/ DownloadAllReturn
    \/ RunAfterDownloadAll
    \/ RetryBegin
    \/ RetryWhile
    \/ RetrySubmit
    \/ RetrySubmitRaced
    \/ \E t \in DOMAIN task : RetryCollect(t)
    \/ \E t \in DOMAIN task : RetryCollectRaced(t)
    \/ RetryCollectEnd
    \/ RetryFinally
    \/ RunAfterRetry
    \/ RunRetryRaised
    \/ RunInterrupted
    \/ RunFinally
    \/ rpc \notin {"returned", "raised"} /\ Shutdown

SpecRun == InitRun /\ [][NextRun]_vars

\* run_download has returned, or an exception has left it.
RunEnded == rpc \in {"returned", "raised"}

\* C19: whichever way run_download ends once the Downloader exists (it
\* returns, retry_failed raised, the run was interrupted), shutdown was called
\* on the way out: the stop event is set, no executor and no pending future is
\* referenced, and the session is closed.
C19_ShutdownOnEveryExit == RunEnded => ShutDown

\* C19's case: retry_failed raised with its pool still referenced, and the
\* exception left run_download after shutdown.
C19_Witness == rpc = "raised" /\ pcRetry = "raised" /\ retry_round >= 1 /\ task # <<>> /\ ShutDown

\* ------------------------------------------ run_download: search parameters

\* None, among values that are otherwise strings.
PyNone == "None"

\* The key of the config file, and the attribute of args, read for each
\* parameter of the search request.
FacetOf == [project            |-> "project",
            activity_id        |-> "activity",
            experiment_id      |-> "experiment",
            frequency          |-> "frequency",
            variable_id        |-> "variable",
            source_id          |-> "model",
            variant_label      |-> "ensemble",
            institution_id     |-> "institution",
            source_type        |-> "source_type",
            grid_label         |-> "grid_label",
            nominal_resolution |-> "resolution"]

\* dict.update: the entries of e are put over those of d
Update(d, e) == [k \in DOMAIN d \cup DOMAIN e |-> IF k \in DOMAIN e THEN e[k] ELSE d[k]]

\* The parameters demo and test mode search with.
DemoParams == [project |-> "CMIP6", variable_id |-> "tas", source_id |-> "CMCC-ESM2",
               frequency |-> "mon", variant_label |-> "r1i1p1f1",
               activity_id |-> "ScenarioMIP", limit |-> "10"]

\* run_download from the reading of the config file to the search request:
\* the parameters handed to fetch_datasets, or the exit code. The
\* extra_params argument is a record: not given, or given as a text
\* json.loads rejects (not valid), or given as a text json.loads turns into doc.
SearchParams(config, args) ==
    LET facets == [k \in DOMAIN FacetOf |-> Get(config, FacetOf[k], args[FacetOf[k]])]
        latest == IF args.latest \/ Get(config, "latest", FALSE)
                  THEN Update(facets, [latest |-> "true"]) ELSE facets
        merged == IF args.extra_params.given
                  THEN Update(latest, args.extra_params.doc) ELSE latest
        kept   == [k \in {x \in DOMAIN merged : merged[x] # PyNone} |-> merged[k]]
        params == IF args.demo \/ args.test THEN DemoParams ELSE kept
    IN IF args.extra_params.given /\ ~args.extra_params.valid
       THEN [fn |-> "run_download", exit |-> 1]
       ELSE IF DOMAIN params = {}
       THEN [fn |-> "run_download", exit |-> 1]
       ELSE [fn |-> "run_download", params |-> params]

\* run_download is called with a config file and a command line. In the
\* config file each of variable and model is left out, given a value or given
\* null, and latest is left out or true; the command line gives variable and
\* model or not, and extra parameters that are absent, unreadable, name a
\* facet or name something else.
InitParams ==
    /\ NoDownloader
    /\ QueryIdle
    /\ RetryIdle
    /\ \E cv \in {<<>>, [variable |-> "pr"], [variable |-> PyNone]},
          cm \in {<<>>, [model |-> "MIROC6"], [model |-> PyNone]},
          cl \in {<<>>, [latest |-> TRUE]},
          v \in {PyNone, "tas"}, m \in {PyNone, "CESM2"}, l \in BOOLEAN, d \in BOOLEAN,
          e \in {[given |-> FALSE], [given |-> TRUE, valid |-> FALSE],
                 [given |-> TRUE, valid |-> TRUE, doc |-> [variable_id |-> "hur"]],
                 [given |-> TRUE, valid |-> TRUE, doc |-> [limit |-> "5"]]} :
          call = [fn |-> "run_download",
                  config |-> Update(Update(cv, cm), cl),
                  args |-> Update([k \in {FacetOf[p] : p \in DOMAIN FacetOf} |-> PyNone],
                                  [variable |-> v, model |-> m, latest |-> l,
                                   extra_params |-> e, demo |-> d, test |-> FALSE])]
    /\ result = NoCall

\* run_download reaches the search request, or exits before it.
ResolveParams ==
    /\ call.fn = "run_download"
    /\ result = NoCall
    /\ result' = SearchParams(call.config, call.args)
    /\ UNCHANGED <<call, dvars, qvars, rvars>>

SpecParams == InitParams /\ [][ResolveParams]_vars

\* What the request carries for parameter k when the explicit parameter goes
\* before the config file and the extra parameters go before both.
ExplicitFirst(k) ==
    LET extra == call.args.extra_params
        explicit == call.args[FacetOf[k]]
    IN IF extra.given /\ k \in DOMAIN extra.doc THEN extra.doc[k]
       ELSE IF explicit # PyNone THEN explicit
       ELSE Get(call.config, FacetOf[k], PyNone)

\* C21: outside demo and test mode, the search request carries for every facet
\* the value of the extra parameters if they name it, else the explicit
\* parameter if it is given, else the value of the config file.
C21_ExplicitParameterWins ==
    (result # NoCall /\ "params" \in DOMAIN result /\ ~call.args.demo /\ ~call.args.test)
        => \A k \in DOMAIN FacetOf : Get(result.params, k, PyNone) = ExplicitFirst(k)

\* -------------------------------------- run_download: retry of a failure file

\* run_download is called with args.retry_failed naming a failure document
\* that is missing, unreadable, or holds a list of descriptors.
InitRetryFile ==
    /\ stop_event = FALSE
    /\ retries \in 0..MaxRetries
    /\ max_downloads = 0
    /\ max_workers = MaxWorkers
    /\ save_mode = "flat"
    /\ files = <<>>
    /\ fs = [p \in AllPaths |-> Absent]
    /\ task = <<>>
    /\ calls = 0
    /\ pcAll = "none"
    /\ executor = FALSE
    /\ pending_futures = <<>>
    /\ yielded = {}
    /\ downloaded_files = <<>>
    /\ failed_files = <<>>
    /\ successful_downloads = 0
    /\ QueryIdle
    /\ RetryIdle
    /\ \E doc \in {[exists |-> FALSE], [exists |-> TRUE, readable |-> FALSE]}
                  \cup {[exists |-> TRUE, readable |-> TRUE, files |-> l] : l \in RetryLists} :
          call = [fn |-> "run_download", retry_failed |-> doc]
    /\ result = NoCall

\* run_download, lines 515-531: the failure document is loaded; a missing
\* or unreadable one ends the run with exit code 1, an empty list with 0.
RunLoadRetryFile ==
    /\ rpc = "none"
    /\ RetryFailedGiven
    /\ LET doc == call.retry_failed
       IN  IF ~doc.exists \/ ~doc.readable
           THEN rpc' = FatalExit /\ UNCHANGED working
           ELSE IF doc.files = <<>>
           THEN rpc' = CleanExit /\ UNCHANGED working
           ELSE rpc' = "deduped" /\ working' = doc.files
    /\ UNCHANGED <<args_stop_event, qpc, node, offset, num_found, node_files, seen_ids, q_files, reqs, outcome, dvars, rvars, pvars>>

\* run_download, line 609: download_all is called on the Downloader just built.
RunCallDownloadAll ==
    /\ rpc = "constructed"
    /\ rpc' = "download_all"
    /\ pcAll' = "start"
    /\ UNCHANGED <<args_stop_event, qpc, node, offset, num_found, node_files, seen_ids, q_files, reqs, outcome, working>>
    /\ UNCHANGED <<stop_event, retries, max_downloads, max_workers, save_mode, files, task, fs, calls, executor, pending_futures, yielded, downloaded_files, failed_files, successful_downloads, rvars, pvars>>

NextRetryFile ==
    \/ RunLoadRetryFile
    \/ RunSaveQueryResults
    \/ RunConstruct
    \/ RunCallDownloadAll
    \/ DownloadAllBegin
    \/ \E t \in DOMAIN task : rpc = "download_all" /\ StartTask(t)
    \/ \E t \in DOMAIN task : rpc = "download_all" /\ Enter(t)
    \/ \E t \in DOMAIN task : rpc = "download_all" /\ FinishDownload(t)
    \/ \E t \in DOMAIN task : Collect(t)
    \/ CollectEnd
    \/ DownloadAllReturn
    \/ RunAfterDownloadAll
    \/ RetryBegin
    \/ RetryWhile
    \/ RetrySubmit
    \/ RetrySubmitRaced
    \/ \E t \in DOMAIN task : RetryCollect(t)
    \/ \E t \in DOMAIN task : RetryCollectRaced(t)
    \/ RetryCollectEnd
    \/ RetryFinally
    \/ RunAfterRetry
    \/ RunRetryRaised
    \/ RunInterrupted
    \/ RunFinally
    \/ downloader /\ rpc \notin {"returned", "raised"} /\ Shutdown

SpecRetryFile == InitRetryFile /\ [][NextRetryFile]_vars

\* The titles of the descriptors a list holds.
Titles(list) == {Get(list[i], "title", "") : i \in DOMAIN list}

\* fetch_datasets was never called and no request went to a search node for it.
NoInitialSearch == qpc = "none" /\ reqs = <<>> /\ q_files = <<>>

\* No document named query_results.json was written.
NoQueryResults == \A m \in metadata : m.name # "query_results.json"

FinalDocs == {m \in metadata : m.name = "failed_downloads_final.json"}

\* run_download is past its call of retry_failed, which returned.
AfterRetry == rpc \in {"finally", "returned"} /\ pcRetry = "returned"

\* Once run_download is past the retry step nothing is queried or submitted
\* again: the rounds, the re-queries and the tasks stay as they are.
NotRetriedAgain ==
    rpc \in {"finally", "returned"} =>
        /\ round_queries' = round_queries
        /\ retry_round' = retry_round
        /\ remaining_failed' = remaining_failed
        /\ DOMAIN task' = DOMAIN task
        /\ \A t \in DOMAIN task : task'[t].fi = task[t].fi

\* C23 as stated: failed_downloads_final.json exists exactly when retry_failed
\* returned a non-empty failed list, holds exactly that list, is absent when
\* nothing remains failed, and the listed descriptors are not retried again.
C23_FinalDocIffStillFailing ==
    /\ [](AfterRetry => (FinalDocs # {} <=> remaining_failed # <<>>))
    /\ [](\A m \in FinalDocs : AfterRetry /\ m.content = remaining_failed)
    /\ [][NotRetriedAgain]_vars

\* C23, amended: a final failure document is written only after retry_failed
\* returned a non-empty failed list and then holds exactly that list; when
\* nothing remains failed there is none; the listed descriptors are not retried
\* again. (When the write fails, save_metadata logs it and no document exists.)
C23_FinalDocOnlyWhenStillFailing ==
    /\ [](\A m \in FinalDocs : AfterRetry /\ remaining_failed # <<>> /\ m.content = remaining_failed)
    /\ [][NotRetriedAgain]_vars

\* C23's case: the run returned after retry rounds that downloaded one of two
\* failed files, and the final document holds the one still failing.
C23_Witness ==
    /\ rpc = "returned"
    /\ pcRetry = "returned"
    /\ Len(failed_files) = 2
    /\ Len(remaining_failed) = 1
    /\ FinalDocs = {[name |-> "failed_downloads_final.json", content |-> remaining_failed]}

\* ------------------------------------------- FileManager.get_output_path call

\* get_output_path as a call that returns or raises: each facet is read with
\* .get(key, [default])[0], which raises IndexError on a facet that is present
\* and holds an empty list.
GetOutputPathCall(fi, mode) ==
    IF \E k \in {"activity_id", "variable_id", "source_id", "nominal_resolution"} :
          k \in DOMAIN fi /\ fi[k] = <<>>
    THEN [fn |-> "get_output_path", raised |-> "IndexError"]
    ELSE [fn |-> "get_output_path", path |-> GetOutputPath(fi, mode)]

\* get_output_path is called on a descriptor in which each facet is missing,
\* an empty list, or a list of one value, in either save mode.
InitPath ==
    /\ NoDownloader
    /\ QueryIdle
    /\ RetryIdle
    /\ \E t \in {<<>>, [title |-> "t1"]},
          a \in {<<>>, [activity_id |-> <<>>], [activity_id |-> <<"Scenario/MIP">>], [activity_id |-> <<"CMIP">>]},
          v \in {<<>>, [variable_id |-> <<>>], [variable_id |-> <<"tas">>]},
          s \in {<<>>, [source_id |-> <<>>], [source_id |-> <<"CESM2">>], [source_id |-> <<"MIROC6">>]},
          n \in {<<>>, [nominal_resolution |-> <<>>], [nominal_resolution |-> <<"">>], [nominal_resolution |-> <<"100 km">>]},
          m \in {"flat", "structured"} :
          call = [fn |-> "get_output_path", mode |-> m,
                  file_info |-> Update(Update(Update(Update(t, a), v), s), n)]
    /\ result = NoCall

\* get_output_path returns or raises.
CallGetOutputPath ==
    /\ call.fn = "get_output_path"
    /\ result = NoCall
    /\ result' = GetOutputPathCall(call.file_info, call.mode)
    /\ UNCHANGED <<call, dvars, qvars, rvars>>

SpecPath == InitPath /\ [][CallGetOutputPath]_vars

\* C24: get_output_path returns a path for every descriptor, whatever facets
\* are missing or empty, and the path is built from the resolution chain:
\* nominal_resolution without spaces when non-empty, else the table entry of
\* source_id, else "unknown".
C24_PathForEveryDescriptor ==
    (call.fn = "get_output_path" /\ result # NoCall) =>
        /\ "path" \in DOMAIN result
        /\ LET fi == call.file_info
               first(k, d) == IF k \in DOMAIN fi /\ fi[k] # <<>> THEN fi[k][1] ELSE d
               nominal == first("nominal_resolution", "")
               resolution == IF nominal # "" THEN RemoveSpaces(nominal)
                             ELSE RESOLUTION_MAPPING(first("source_id", "unknown"))
               activity == SlashToUnderscore(first("activity_id", "unknown"))
               variable == SlashToUnderscore(first("variable_id", "unknown"))
               filename == Get(fi, "title", "")
           IN  result.path = IF call.mode = "flat"
                             THEN <<activity, "_", resolution, "_", filename>>
                             ELSE <<variable, "/", resolution, "/", activity, "/", filename>>

\* C25: a download_file call on a descriptor with an empty filename or without
\* urls makes no request, sleeps no backoff, is not re-invoked and leaves the
\* file system as it was at the call, and what it returns is (None, file_info).
C25_InvalidDescriptorReturnsAtOnce ==
    (Get(Fi1, "title", "") = "" \/ Get(Fi1, "url", <<>>) = <<>>) =>
        /\ T1.requested = <<>>
        /\ T1.sleeps = <<>>
        /\ T1.attempt = 1
        /\ ~T1.streamed
        /\ T1.removed = "none"
        /\ fs = [p \in AllPaths |-> IF p = GetOutputPath(Fi1, save_mode) THEN T1.at_call ELSE Absent]
        /\ T1.pc = "done" => (T1.ret \in {"invalid", "stop_entry"} /\ T1.path = NoPath /\ T1.info = Fi1)
        /\ (T1.pc = "done" /\ ~stop_event) => T1.ret = "invalid"

\* C25's case: a descriptor with a title but no url, whose output file exists,
\* came back from the validation with no stop event set.
C25_Witness ==
    /\ ~stop_event
    /\ Get(Fi1, "title", "") = "t1"
    /\ Get(Fi1, "url", <<>>) = <<>>
    /\ T1.at_call # Absent
    /\ T1.pc = "done"
    /\ T1.ret = "invalid"
    /\ T1.info = Fi1

\* -------------------------------------------- run_download: invalid descriptors

\* The run on lists that hold a descriptor with a title and no url next to a
\* sound one.
InitRunInvalid ==
    InitRunOn({s \in SeqsUpTo({Desc("t1", <<>>, GoodChecksum), Stale("t2")}, MaxFiles) :
                  \A i, j \in 1..Len(s) : i # j => s[i] # s[j]})

SpecRunInvalid == InitRunInvalid /\ [][NextRun]_vars

\* C26: a descriptor that download_all reported failed because it lacks a
\* filename or a url is never re-queried by retry_failed, no download is
\* attempted for it in a retry round, and once retry_failed has returned it is
\* in the failed list that goes into the final failure document.
C26_InvalidNeverRetried ==
    LET invalid(fi) == Get(fi, "title", "") = "" \/ Get(fi, "url", <<>>) = <<>>
        reported == {failed_files[i] : i \in {k \in DOMAIN failed_files : invalid(failed_files[k])}}
    IN  rpc \in {"retry_failed", "finally", "returned"} =>
          /\ \A i \in DOMAIN round_queries : round_queries[i].file_info \notin reported
          /\ retry_round >= 1 =>
                \A t \in DOMAIN task, fi \in reported : Get(task[t].fi, "title", "") # Get(fi, "title", "")
          /\ pcRetry = "returned" => reported \subseteq Range(remaining_failed)

\* --------------------------------------------- Downloader.verify_checksum call

\* verify_checksum as a call that returns or raises: line 257 reads
\* .get('checksum', [''])[0] outside the try block, so a checksum that is
\* present and an empty list raises IndexError.
VerifyChecksumCall(file, fi) ==
    IF "checksum" \in DOMAIN fi /\ fi.checksum = <<>>
    THEN [fn |-> "verify_checksum", raised |-> "IndexError"]
    ELSE [fn |-> "verify_checksum", value |-> VerifyChecksum(file, fi)]

\* verify_checksum is called on a path where nothing can be read or a file is,
\* and a descriptor whose checksum is missing, an empty list, empty, or a
\* sha256 or md5 digest, under an algorithm tag that is missing, md5, sha256
\* in either case, or another.
InitChecksum ==
    /\ NoDownloader
    /\ QueryIdle
    /\ RetryIdle
    /\ \E f \in {Absent, File(GoodBody), File(BadBody)},
          c \in {<<>>, [checksum |-> <<>>], [checksum |-> <<EmptyHex>>], [checksum |-> GoodChecksum],
                 [checksum |-> <<HexDigest("md5", GoodBody)>>]},
          t \in {<<>>, [checksum_type |-> <<"md5">>], [checksum_type |-> <<"sha256">>],
                 [checksum_type |-> <<"SHA256">>], [checksum_type |-> <<"crc32">>]} :
          call = [fn |-> "verify_checksum", file |-> f, file_info |-> Update(c, t)]
    /\ result = NoCall

\* verify_checksum returns or raises.
CallVerifyChecksum ==
    /\ call.fn = "verify_checksum"
    /\ result = NoCall
    /\ result' = VerifyChecksumCall(call.file, call.file_info)
    /\ UNCHANGED <<call, dvars, qvars, rvars>>

SpecChecksum == InitChecksum /\ [][CallVerifyChecksum]_vars

\* C27: verify_checksum never raises, and returns true exactly when the
\* descriptor supplies no checksum, or its algorithm tag is neither md5 nor
\* sha256, or the digest of the bytes on disk under the tagged algorithm equals
\* the expected digest.
C27_VerifyChecksumContract ==
    (call.fn = "verify_checksum" /\ result # NoCall) =>
        LET fi == call.file_info
            supplied == "checksum" \in DOMAIN fi /\ fi.checksum # <<>> /\ fi.checksum[1] # EmptyHex
            tag == Lower(Get(fi, "checksum_type", <<"sha256">>)[1])
        IN  /\ "value" \in DOMAIN result
            /\ result.value <=> \/ ~supplied
                                \/ tag \notin {"md5", "sha256"}
                                \/ call.file.exists /\ HexDigest(tag, call.file.data) = fi.checksum[1]

\* ------------------------------------------ claims about a failed verification

\* Task t has streamed the whole of a corrupted body into its temp file, and
\* the descriptor carries the checksum of the sound body: the verification of
\* line 329 is about to fail.
BadlyStreamed(t) ==
    /\ task[t].pc = "stream"
    /\ task[t].body = <<>>
    /\ fs[TempPath(GetOutputPath(task[t].fi, save_mode))] = File(BadBody)
    /\ Get(task[t].fi, "checksum", <<EmptyHex>>) = GoodChecksum

\* The step download_file takes from a failed verification: into the handler of
\* lines 341-353, the final path untouched, and the temp file left as
\* `leftover` allows.
FailedVerificationStep(t, leftover) ==
    LET out == GetOutputPath(task[t].fi, save_mode)
        tmp == TempPath(out)
    IN  (BadlyStreamed(t) /\ task'[t] # task[t]) =>
            /\ task'[t] = [task[t] EXCEPT !.pc = "except"]
            /\ fs'[tmp] \in leftover
            /\ \A p \in AllPaths \ {tmp} : fs'[p] = fs[p]

\* The steps of the handler: with the stop event set it returns (None,
\* file_info); else, while the attempt number is within the budget, it sleeps
\* 2^attempt + 5 seconds and download_file calls itself with the next attempt
\* number; else it returns (None, file_info).
HandledAsTransient(t) ==
    /\ (task[t].pc = "except" /\ task'[t] # task[t]) =>
          /\ fs' = fs
          /\ task'[t] = IF stop_event THEN Returned(t, "stop_except", NoPath, task[t].fi)
                        ELSE IF task[t].attempt <= retries
                        THEN [task[t] EXCEPT !.pc = "sleep", !.sleeps = Append(@, Pow(2, task[t].attempt) + 5)]
                        ELSE Returned(t, "exhausted", NoPath, task[t].fi)
    /\ (task[t].pc = "sleep" /\ task'[t] # task[t]) =>
          /\ fs' = fs
          /\ task'[t] = [task[t] EXCEPT !.pc = "entry", !.attempt = @ + 1]

\* C28 as stated: a wholly streamed temp file that fails its checksum is deleted
\* and never renamed to the final path, and the failure is handled as a
\* transient one: backoff and another attempt while the budget allows, else
\* (None, file_info).
C28_BadTempDeleted ==
    [][\A t \in DOMAIN task :
          /\ t \in DOMAIN task'
          /\ FailedVerificationStep(t, {Absent})
          /\ HandledAsTransient(t)]_vars

\* C28, amended: as above, but the deletion of the temp file is only tried:
\* when unlink fails, that is logged and the temp file stays while the failure
\* is handled all the same.
C28_BadTempNeverRenamed ==
    [][\A t \in DOMAIN task :
          /\ t \in DOMAIN task'
          /\ FailedVerificationStep(t, {Absent, File(BadBody)})
          /\ HandledAsTransient(t)]_vars

\* C28's case: the first attempt streamed a corrupted body to the end, the temp
\* file is gone, nothing is at the final path, and the call waits 7 seconds
\* before its second attempt.
C28_Witness ==
    /\ ~stop_event
    /\ T1.pc = "sleep"
    /\ T1.attempt = 1
    /\ T1.streamed
    /\ T1.body = <<>>
    /\ T1.sleeps = <<7>>
    /\ T1.at_call = Absent
    /\ ~fs[Tmp1].exists
    /\ ~fs[Out1].exists

InitCancel ==
    /\ stop_event = FALSE
    /\ retries \in 0..(MaxRetries - 1)
    /\ max_downloads = 0
    /\ max_workers = MaxWorkers
    /\ save_mode = "flat"
    /\ files \in {s \in SeqsUpTo({Desc("t1", <<Url("u1", "HTTPServer")>>, GoodChecksum),
                                  Desc("t2", <<Url("u2", "HTTPServer")>>, GoodChecksum)}, MaxFiles) :
                     s # <<>> /\ \A i, j \in 1..Len(s) : i # j => s[i] # s[j]}
    /\ fs = [p \in AllPaths |-> Absent]
    /\ task = <<>>
    /\ calls = 0
    /\ pcAll = "start"
    /\ executor = FALSE
    /\ pending_futures = <<>>
    /\ yielded = {}
    /\ downloaded_files = <<>>
    /\ failed_files = <<>>
    /\ successful_downloads = 0
    /\ QueryIdle
    /\ RetryIdle
    /\ PureIdle

NextCancel ==
    \/ DownloadAllBegin
    \/ \E t \in DOMAIN task : StartTask(t)
    \/ \E t \in DOMAIN task : Enter(t)
    \/ \E t \in DOMAIN task : CheckExisting(t)
    \/ \E t \in DOMAIN task : Fetch(t)
    \/ \E t \in DOMAIN task : StreamChunk(t)
    \/ \E t \in DOMAIN task : StreamFail(t)
    \/ \E t \in DOMAIN task : VerifyAndRename(t)
    \/ \E t \in DOMAIN task : Except(t)
    \/ \E t \in DOMAIN task : Reinvoke(t)
    \/ \E t \in DOMAIN task : Collect(t)
    \/ CollectEnd
    \/ DownloadAllReturn
    \/ Shutdown

SpecCancel == InitCancel /\ [][NextCancel]_vars

\* C30: a descriptor whose download_file call returned because the stop event
\* was set (at its entry, between two chunks, or in the exception handler) is
\* never taken up by the loop over the finished futures and is not in the
\* failed list of download_all, however the workers, the collecting loop and
\* shutdown interleave.
C30_CancelledNotFailed ==
    \A t \in DOMAIN task :
        (task[t].pc = "done" /\ task[t].ret \in {"stop_entry", "stop_stream", "stop_except"}) =>
            /\ t \notin yielded
            /\ task[t].fi \notin Range(failed_files)

\* C30's case: download_all returned after one download failed for good and
\* was counted, and the other was stopped between two chunks and was not.
C30_Witness ==
    /\ pcAll = "returned"
    /\ Len(task) = 2
    /\ task[1].ret = "exhausted"
    /\ failed_files = <<task[1].fi>>
    /\ task[2].pc = "done"
    /\ task[2].ret = "stop_stream"

\* ------------------------------------------------ claims about the pagination

\* C31: every page request to an endpoint carries as offset the number of
\* records fetched from it so far and counts as one request; an answered page
\* is appended to the pages before it; another request follows only while the
\* count fetched is below the total the endpoint reported; and what
\* _fetch_from_node returns is the pages in the order requested.
C31_PagesInRequestOrder ==
    [][/\ (qpc = "page" /\ qpc' = "await") =>
             /\ offset = Len(node_files)
             /\ reqs' = [reqs EXCEPT ![node] = @ + 1]
       /\ (qpc = "await" /\ qpc' = "page") =>
             /\ \E docs \in QueryPages : node_files' = node_files \o docs
             /\ offset' = Len(node_files')
             /\ offset' < num_found'
             /\ reqs' = reqs
       /\ (qpc = "await" /\ qpc' # "page" /\ outcome'[node] \in {"returned", "no_files"}) =>
             /\ \E docs \in QueryPages : node_files' = node_files \o docs
             /\ reqs' = reqs]_vars

\* C31's case: the first endpoint reported two records, served them in two
\* pages of one, was asked twice, and fetch_datasets returned both in order.
C31_Witness ==
    /\ ~args_stop_event
    /\ qpc = "returned"
    /\ outcome[1] = "returned"
    /\ reqs[1] = 2
    /\ node_files = <<Rec("a", "t1"), Rec("b", "t1")>>
    /\ q_files = node_files

\* C32: once the stop event is set, no step of fetch_datasets sends a request
\* and none terminates the process: the call goes on only to return.
C32_StopReturnsGathered ==
    [][(args_stop_event /\ qpc \in {"node", "page", "await"}) =>
          /\ reqs' = reqs
          /\ qpc' # "exited"]_vars

\* ------------------------------------------------ claims about the cap on files

\* C33: with max_downloads a positive integer, the tasks one call of
\* download_all has submitted are at most max_downloads, and the i-th task is
\* for the i-th descriptor of the list.
C33_AtMostMaxDownloadsTasks ==
    (max_downloads > 0 /\ pcAll # "start") =>
        /\ Len(task) <= max_downloads
        /\ Len(task) <= Len(files)
        /\ \A i \in DOMAIN task : task[i].fi = files[i]

\* C33's case: a list of two descriptors under a cap of one; download_all
\* returned having run one task, for the first of them.
C33_Witness ==
    /\ max_downloads = 1
    /\ Len(files) = 2
    /\ files[1] # files[2]
    /\ pcAll = "returned"
    /\ Len(task) = 1
    /\ task[1].fi = files[1]
    /\ Len(downloaded_files) + Len(failed_files) = 1

\* ------------------------------------------- claims about tasks on one path

\* C34: no two download_file executions of the Downloader are in progress at
\* the same time for one target path.
C34_OneTaskPerPath ==
    \A t, u \in Running :
        t # u => GetOutputPath(task[t].fi, save_mode) # GetOutputPath(task[u].fi, save_mode)

\* run_download --retry-failed on a failure document that json.load (line 525)
\* hands over as it is: the branch does not look for descriptors listed twice.
SpecRunDocument == InitRunOn(SeqsUpTo(RetryInputs, MaxFiles) \ {<<>>}) /\ [][NextRun]_vars

\* ------------------------------------------ claims about the external stop

\* WorkerThread.stop (src/gui/main.py, line 380) while run_download is in
\* download_all or retry_failed: it sets the Event that WorkerThread.run stored
\* in args.stop_event.  Downloader.__init__ (line 227) made an Event of its own
\* and run_download hands args.stop_event to the QueryHandler of the search
\* only (line 576), so the Downloader's event is left as it is.
WorkerThreadStop ==
    /\ ~args_stop_event
    /\ rpc \in {"download_all", "retry_failed"}
    /\ args_stop_event' = TRUE
    /\ UNCHANGED <<qpc, node, offset, num_found, node_files, seen_ids, q_files, reqs, outcome, rpc, working, dvars, rvars, pvars>>

\* run_download on a worker thread of the GUI, which may stop it.
SpecGuiStop == InitRun /\ [][NextRun \/ WorkerThreadStop]_vars

\* C35: while run_download is in download_all or retry_failed, an external stop
\* request (args.stop_event set) has set the stop event the Downloader observes.
C35_ExternalStopReachesDownloader ==
    (args_stop_event /\ rpc \in {"download_all", "retry_failed"}) => stop_event

\* C36: between two successive page requests to one endpoint the offset
\* strictly increases, whatever the endpoint answered.
C36_OffsetStrictlyIncreases ==
    [][(qpc = "await" /\ qpc' = "page") => offset' > offset]_vars

\* ------------------------------------------------ PRISM: Downloader.download_file

\* The number of chunks of the body of a PRISM archive.
PrismChunks == 2

\* prism_downloader.download_file is called with the output path absent (the
\* case download_prism submits, line 329) on a Downloader with the given
\* number of attempts.
InitPrism ==
    /\ NoDownloader
    /\ QueryIdle
    /\ RetryIdle
    /\ \E r \in 0..MaxRetries : call = [fn |-> "prism_download_file", retries |-> r]
    /\ result = NoCall

\* download_file, lines 115-120: the loop `for attempt in range(1, retries + 1)`
\* is entered, or is empty and line 160 returns None.
PrismBegin ==
    /\ call.fn = "prism_download_file"
    /\ result = NoCall
    /\ result' = IF call.retries = 0
                 THEN [pc |-> "returned", attempt |-> 0, expected_size |-> 0, downloaded_size |-> 0, output_path |-> [exists |-> FALSE, size |-> 0], ret |-> PyNone, existing |-> FALSE]
                 ELSE [pc |-> "get", attempt |-> 1, expected_size |-> 0, downloaded_size |-> 0, output_path |-> [exists |-> FALSE, size |-> 0], ret |-> "", existing |-> FALSE]
    /\ UNCHANGED <<call, dvars, qvars, rvars>>

\* download_file, lines 121-134: the request is answered with a success status
\* and a Content-Length header (0 when there is none), and open(output_path,
\* 'wb') creates or truncates the file at the final path.
PrismOpen ==
    /\ call.fn = "prism_download_file"
    /\ result # NoCall
    /\ result.pc = "get"
    /\ \E expected_size \in 0..PrismChunks :
         result' = [result EXCEPT !.pc = "stream", !.expected_size = expected_size, !.downloaded_size = 0,
                                  !.output_path = [exists |-> TRUE, size |-> 0]]
    /\ UNCHANGED <<call, dvars, qvars, rvars>>

\* download_file, lines 135-138: one chunk is written to output_path.
PrismChunk ==
    /\ call.fn = "prism_download_file"
    /\ result # NoCall
    /\ result.pc = "stream"
    /\ result.downloaded_size < PrismChunks
    /\ result' = [result EXCEPT !.downloaded_size = @ + 1, !.output_path = [exists |-> TRUE, size |-> result.downloaded_size + 1]]
    /\ UNCHANGED <<call, dvars, qvars, rvars>>

\* download_file, lines 153-159: requests.get, raise_for_status or iter_content
\* raises RequestException; the last attempt returns None, an earlier one goes
\* on with the next attempt.  Nothing touches output_path.
PrismRequestException ==
    /\ call.fn = "prism_download_file"
    /\ result # NoCall
    /\ result.pc \in {"get", "stream"}
    /\ result' = IF result.attempt = call.retries
                 THEN [result EXCEPT !.pc = "returned", !.ret = PyNone]
                 ELSE [result EXCEPT !.pc = "get", !.attempt = @ + 1]
    /\ UNCHANGED <<call, dvars, qvars, rvars>>

\* download_file, lines 140-152: the body is over; a size other than a given
\* Content-Length returns None, else the path is returned.
PrismStreamEnds ==
    /\ call.fn = "prism_download_file"
    /\ result # NoCall
    /\ result.pc = "stream"
    /\ result' = IF result.expected_size > 0 /\ result.downloaded_size # result.expected_size
                 THEN [result EXCEPT !.pc = "returned", !.ret = PyNone]
                 ELSE [result EXCEPT !.pc = "returned", !.ret = "output_path"]
    /\ UNCHANGED <<call, dvars, qvars, rvars>>

\* download_prism, lines 326-333, in a later run: the file counts as already
\* downloaded if output_path exists.
PrismLaterRun ==
    /\ call.fn = "prism_download_file"
    /\ result # NoCall
    /\ result.pc = "returned"
    /\ result' = [result EXCEPT !.pc = "later_run", !.existing = result.output_path.exists]
    /\ UNCHANGED <<call, dvars, qvars, rvars>>

SpecPrism == InitPrism /\ [][PrismBegin \/ PrismOpen \/ PrismChunk \/ PrismRequestException \/ PrismStreamEnds \/ PrismLaterRun]_vars

\* C37: whenever PRISM's download_file ended without success, no file exists
\* at output_path, and a later download_prism run does not count the file as
\* already present.
C37_NoPartialFileAtOutputPath ==
    (call.fn = "prism_download_file" /\ result # NoCall /\ result.pc \in {"returned", "later_run"} /\ result.ret = PyNone) =>
        /\ ~result.output_path.exists
        /\ ~result.existing

\* ------------------------------------------ claims about the retry accounting

\* C38: when retry_failed has returned, every descriptor it was given has
\* either its path among the downloaded paths or a descriptor of its filename
\* in the failed list, and not both.
C38_EveryDescriptorAccounted ==
    pcRetry = "returned" =>
        \A i \in DOMAIN failed_files :
            (GetOutputPath(failed_files[i], save_mode) \in Range(retry_downloaded))
                # (Get(failed_files[i], "title", "") \in Titles(remaining_failed))

\* C39: when a retry task is collected and its download_file raised, the
\* descriptor appended to the round's failed list is the one the task was
\* submitted for (it has the title of the record the task ran on).
C39_RaisedTaskKeepsItsDescriptor ==
    [][\A t \in DOMAIN task :
          (/\ pcRetry = "collect"
           /\ t \in DOMAIN task'
           /\ task[t].pc = "queued"
           /\ task'[t].pc = "done"
           /\ task'[t].ret = "raised")
          => /\ Len(current_failed') = Len(current_failed) + 1
             /\ Get(current_failed'[Len(current_failed')], "title", "") = Get(task[t].fi, "title", "")]_vars

\* C40: a shutdown that takes effect while retry_failed is submitting or
\* collecting does not make the running call raise.
C40_ShutdownNeverRaises ==
    [][(~stop_event /\ stop_event' /\ pcRetry \in {"submit", "collect"})
          => pcRetry' \notin {"finally_raise", "raised"}]_vars

====
